---------------------------- MODULE Spec2Model ----------------------------
(***************************************************************************)
(* Model of the D&D helper bot (src/src/app.py, src/src/ollama.py):        *)
(* the per-user session store, the routing of updates that main()          *)
(* registers, the section commands and reply-keyboard buttons, and the     *)
(* free-text dispatcher handle_message with the retrieval-augmented        *)
(* generation client OllamaClient it calls.                                *)
(*                                                                         *)
(* A text is a sequence of tokens (strings).  A fixed literal of the       *)
(* source is one token; texts that come from outside (user messages,       *)
(* stored documents, generation payloads) are token sequences drawn from   *)
(* small sets.                                                             *)
(***************************************************************************)
EXTENDS Integers, Sequences, FiniteSets, TLC

\* ------------------------------------------------------------------ bounds

\* Longest generation payload (in characters) the endpoint answers with.
MaxPayloadLen == 2

\* The longest text and the largest limit split_message is run on.
MaxSplitTextLen == 5
MaxSplitLimit == 3

\* The largest number of races and of spells of one level the keyboards
\* are built for.
MaxRaces == 21
MaxSpells == 17

\* The user ids the transport delivers updates for.
Users == {1, 2}

\* ------------------------------------------------------------ text helpers

Range(s) == {s[i] : i \in 1..Len(s)}

\* s[lo..hi] clipped to the text, <<>> when the slice is empty.
Slice(s, lo, hi) ==
    IF hi < lo THEN <<>> ELSE SubSeq(s, lo, IF hi > Len(s) THEN Len(s) ELSE hi)

\* Does text `part` occur in text `whole` at position i (1-based)?
OccursAt(part, whole, i) ==
    /\ i >= 1
    /\ i + Len(part) - 1 <= Len(whole)
    /\ \A k \in 1..Len(part) : whole[i + k - 1] = part[k]

\* `part in whole` of Python strings.
Contains(whole, part) ==
    \E i \in 1..(Len(whole) + 1) : OccursAt(part, whole, i)

\* sep.join(parts)
RECURSIVE Join(_, _)
Join(parts, sep) ==
    IF Len(parts) = 0 THEN <<>>
    ELSE IF Len(parts) = 1 THEN parts[1]
    ELSE parts[1] \o sep \o Join(Tail(parts), sep)

\* All texts over alphabet A of length at most n.
TextsUpTo(A, n) == UNION {[1..k -> A] : k \in 0..n}

\* --------------------------------------------------- static reference text
\* The static text blocks of src/texts.py, each an opaque token.

RULES_TEXT == <<"RULES_TEXT_PART1", "RULES_TEXT_PART2", "RULES_TEXT_PART3">>

DICE_TEXT ==
    <<"DICE_RULES_TEXT_PART1", "DICE_RULES_TEXT_PART2", "DICE_RULES_TEXT_PART3",
      "DICE_RULES_TEXT_PART4", "DICE_RULES_TEXT_PART5">>

COMBAT_TEXT ==
    <<"COMBAT_RULES_TEXT_PART1", "COMBAT_RULES_TEXT_PART2", "COMBAT_RULES_TEXT_PART3",
      "COMBAT_RULES_TEXT_PART4", "COMBAT_RULES_TEXT_PART5", "COMBAT_RULES_TEXT_PART6",
      "COMBAT_RULES_TEXT_PART7">>

STATS_TEXT ==
    <<"STATS_TEXT_PART1", "STATS_TEXT_PART2", "STATS_TEXT_PART3", "STATS_TEXT_PART4",
      "STATS_TEXT_PART5", "STATS_TEXT_PART6", "STATS_TEXT_PART7", "STATS_TEXT_PART8",
      "STATS_TEXT_PART9", "STATS_TEXT_PART10">>

GLOSSARY_TEXT ==
    <<"GLOSSARY_TEXT_PART1", "GLOSSARY_TEXT_PART2", "GLOSSARY_TEXT_PART3",
      "GLOSSARY_TEXT_PART4", "GLOSSARY_TEXT_PART5">>

Sections ==
    {"rules", "dice", "combat", "stats", "glossary", "races", "spells", "classes"}

\* The sections backed by a vector collection.
Domains == {"races", "spells", "classes"}

\* ------------------------------------------------------------------ state

VARIABLES
    user_sessions,  \* app.py user_sessions: dict user id -> {"section", "content"}
    chroma,         \* the persistent vector store of each domain, as OllamaClient sees it
    task,           \* the frame of the handle_message call in flight
    obs,            \* the handler that processed the latest update of the transport
    call            \* the frame of the formatting or keyboard function being run

vars == <<user_sessions, chroma, task, obs, call>>

\* -------------------------------------------------------------- UserSession

DefaultSession == [section |-> "rules", content |-> RULES_TEXT]

\* set_section with a slip: an existing entry keeps its content (dict.update
\* of the section alone).
set_section_Merge(sessions, user_id, section, content) ==
    [x \in (DOMAIN sessions) \cup {user_id} |->
        IF x = user_id
        THEN [section |-> section,
              content |-> IF user_id \in DOMAIN sessions THEN sessions[user_id].content
                          ELSE content]
        ELSE sessions[x]]

\* set_section with a slip: one current section shared by every user.
set_section_Broadcast(sessions, user_id, section, content) ==
    [x \in (DOMAIN sessions) \cup {user_id} |-> [section |-> section, content |-> content]]

\* UserSession.set_section: overwrite the user's entry with a fresh dict.
set_section(sessions, user_id, section, content) ==
    [x \in (DOMAIN sessions) \cup {user_id} |->
        IF x = user_id THEN [section |-> section, content |-> content]
        ELSE sessions[x]]

\* get_current_section with a slip: the default content is the empty string.
get_current_section_EmptyDefault(sessions, user_id) ==
    IF user_id \in DOMAIN sessions THEN sessions[user_id]
    ELSE [section |-> "rules", content |-> <<>>]

\* get_current_section with a slip: the content is read under a key the
\* entry does not have, so that the default content comes back.
get_current_section_Torn(sessions, user_id) ==
    IF user_id \in DOMAIN sessions
    THEN [section |-> sessions[user_id].section, content |-> RULES_TEXT]
    ELSE DefaultSession

\* UserSession.get_current_section: the stored pair, or the default pair
\* when the user has no entry; the store itself is not touched.
get_current_section(sessions, user_id) ==
    IF user_id \in DOMAIN sessions THEN sessions[user_id] ELSE DefaultSession

\* ----------------------------------------------------------- vector store

\* n_results cap of _retrieve_rag_context.
TopK == 5

\* Number of documents of the largest collection considered.
CorpusSize == 6

\* Number of documents of a collection smaller than the n_results cap.
SmallCorpusSize == 2

DocWords == <<"lore", "more", "fact", "note", "rule", "tale", "saga", "myth">>

\* The i-th stored document of domain d: a text of two tokens.
Doc(d, i) == <<d, DocWords[i]>>

\* The documents of a collection, in the store's similarity order.
Stored(d, n) == [i \in 1..n |-> Doc(d, i)]

\* A collection whose second document has no text (None or "").
StoredWithBlank(d) == <<Doc(d, 1), <<>>, Doc(d, 3)>>

PrimaryName(d) ==
    CASE d = "races" -> "dnd_races" [] d = "spells" -> "dnd_spells" [] d = "classes" -> "dnd_classes"

FallbackName(d) == d

\* collection_names of the three branches of _retrieve_rag_context.
collection_names(d) == <<PrimaryName(d), FallbackName(d)>>

NoCollections == [n \in {} |-> <<>>]

\* The shapes of one domain's store: data directory absent (client None),
\* present without collections, or present with one collection.
StoreOf(kind, d) ==
    CASE kind = "absent" -> [client |-> FALSE, colls |-> NoCollections]
      [] kind = "no_collection" -> [client |-> TRUE, colls |-> NoCollections]
      [] kind = "primary_empty" ->
            [client |-> TRUE, colls |-> [n \in {PrimaryName(d)} |-> <<>>]]
      [] kind = "fallback_blank" ->
            [client |-> TRUE, colls |-> [n \in {FallbackName(d)} |-> StoredWithBlank(d)]]
      [] kind = "primary_small" ->
            [client |-> TRUE, colls |-> [n \in {PrimaryName(d)} |-> Stored(d, SmallCorpusSize)]]
      [] kind = "primary_full" ->
            [client |-> TRUE, colls |-> [n \in {PrimaryName(d)} |-> Stored(d, CorpusSize)]]

\* The data directories the process may find when it starts: which of
\* data_pars/chroma_races, chroma_spells and chroma_classes exist, and
\* what they hold.
Deployments ==
    {[races |-> "absent", spells |-> "absent", classes |-> "primary_small"],
     [races |-> "primary_full", spells |-> "fallback_blank", classes |-> "no_collection"],
     [races |-> "absent", spells |-> "primary_empty", classes |-> "primary_full"]}

\* OllamaClient._init_chroma_clients: a client per domain whose data
\* directory exists, None otherwise.
init_chroma_clients(deployment) == [d \in Domains |-> StoreOf(deployment[d], d)]

\* What the environment does to the calls of one retrieval.
RetrievalEnvs ==
    [embed_ok : BOOLEAN,    \* POST /api/embed answers 200 with an embedding
     create_ok : BOOLEAN,   \* get_or_create_collection succeeds
     count_ok : BOOLEAN,    \* collection.count() succeeds
     texts_ok : BOOLEAN,    \* collection.query(query_texts=...) succeeds
     vec_ok : BOOLEAN,      \* collection.query(query_embeddings=...) succeeds
     shape : {"ok", "none", "no_documents", "null_row"}]  \* what query returns

HealthyEnv ==
    [embed_ok |-> TRUE, create_ok |-> TRUE, count_ok |-> TRUE, texts_ok |-> TRUE,
     vec_ok |-> TRUE, shape |-> "ok"]

\* OllamaEmbeddingFunction.__call__: one embedding per text that the
\* endpoint embeds; a failed request is printed and skipped.
OllamaEmbeddingFunction(texts, env) ==
    IF env.embed_ok THEN [i \in 1..Len(texts) |-> "embedding"] ELSE <<>>

\* The first name of collection_names that get_collection finds, "" if none.
ExistingCollection(store, d) ==
    IF collection_names(d)[1] \in DOMAIN store[d].colls THEN collection_names(d)[1]
    ELSE IF collection_names(d)[2] \in DOMAIN store[d].colls THEN collection_names(d)[2]
    ELSE ""

\* get_or_create_collection(name=d) on the domain's client.
get_or_create_collection(store, d) ==
    [store EXCEPT ![d].colls =
        [n \in (DOMAIN store[d].colls) \cup {FallbackName(d)} |->
            IF n \in DOMAIN store[d].colls THEN store[d].colls[n] ELSE <<>>]]

\* collection.query(..., n_results=n): the n most similar documents.
QueryDocuments(coll, n) == Slice(coll, 1, n)

\* Lines 194-214: keep the documents that have text and join them.
NonBlank(docs) == SelectSeq(docs, LAMBDA doc : doc # <<>>)

RagSeparator == <<"\n\n---\n\n">>

\* FormatDocuments with a slip: only the first document is kept.
FormatDocuments_FirstOnly(docs) ==
    IF NonBlank(docs) = <<>> THEN <<>> ELSE NonBlank(docs)[1]

FormatDocuments(docs) == Join(NonBlank(docs), RagSeparator)

\* A result of the body of _retrieve_rag_context: either a returned
\* context or an exception on its way to the outer handler.  `docs` are the
\* documents the store returned, `used` the calls the body got to.
Returned(ctx, store, docs, used) ==
    [exc |-> FALSE, ctx |-> ctx, store |-> store, docs |-> docs, used |-> used]

Raised(store, used) ==
    [exc |-> TRUE, ctx |-> <<>>, store |-> store, docs |-> <<>>, used |-> used]

\* Lines 194-214: format the documents of a well-formed result; a result
\* that is None or has no "documents" gives ""; a row that is None raises.
FormatResults(store, docs, env, used) ==
    CASE env.shape = "ok" -> Returned(FormatDocuments(docs), store, docs, used)
      [] env.shape = "null_row" -> Raised(store, used)
      [] OTHER -> Returned(<<>>, store, <<>>, used)

\* QueryCollection with a slip: n_results is the count, without the cap.
QueryCollection_Uncapped(store, coll, count, env, used) ==
    LET n_results == IF count > 0 THEN count ELSE TopK
        docs == QueryDocuments(coll, n_results)
    IN  IF env.texts_ok
        THEN FormatResults(store, docs, env, used \cup {"texts_ok", "shape"})
        ELSE IF env.vec_ok
             THEN FormatResults(store, docs, env, used \cup {"texts_ok", "vec_ok", "shape"})
             ELSE Returned(<<>>, store, <<>>, used \cup {"texts_ok", "vec_ok"})

\* Lines 174-192: query by text, and by the explicit embedding when that raises.
QueryCollection(store, coll, count, env, used) ==
    LET n_results == IF count > 0 THEN (IF TopK < count THEN TopK ELSE count) ELSE TopK
        docs == QueryDocuments(coll, n_results)
    IN  IF env.texts_ok
        THEN FormatResults(store, docs, env, used \cup {"texts_ok", "shape"})
        ELSE IF env.vec_ok
             THEN FormatResults(store, docs, env, used \cup {"texts_ok", "vec_ok", "shape"})
             ELSE Returned(<<>>, store, <<>>, used \cup {"texts_ok", "vec_ok"})

\* Lines 154-172: count the documents; an empty collection ends the
\* retrieval, a failed count is printed and the query goes on with count 0.
CountAndQuery(store, coll, env, used) ==
    IF env.count_ok
    THEN IF Len(coll) = 0 THEN Returned(<<>>, store, <<>>, used \cup {"count_ok"})
         ELSE QueryCollection(store, coll, Len(coll), env, used \cup {"count_ok"})
    ELSE QueryCollection(store, coll, 0, env, used \cup {"count_ok"})

\* Lines 96-152: resolve the collection of the domain; the three branches
\* differ only in the client and the names.
ResolveCollection(section_type, store, env, used) ==
    IF section_type \in Domains /\ store[section_type].client
    THEN LET name == ExistingCollection(store, section_type)
         IN  IF name # ""
             THEN CountAndQuery(store, store[section_type].colls[name], env, used)
             ELSE IF env.create_ok
                  THEN LET created == get_or_create_collection(store, section_type)
                       IN  CountAndQuery(created,
                                         created[section_type].colls[FallbackName(section_type)],
                                         env, used \cup {"create_ok"})
                  ELSE Raised(store, used \cup {"create_ok"})
    ELSE Returned(<<>>, store, <<>>, used)

\* RetrieveBody with a slip: the query is embedded only when the store
\* is queried by embedding, so that a failed embedding is not noticed first.
RetrieveBody_LazyEmbedding(query, section_type, store, env) ==
    ResolveCollection(section_type, store, env, {"embed_ok"})

\* Lines 90-214, the try block: the query is embedded first, and an
\* embedding list without an element raises at [0].
RetrieveBody(query, section_type, store, env) ==
    IF Len(OllamaEmbeddingFunction(<<query>>, env)) = 0 THEN Raised(store, {"embed_ok"})
    ELSE ResolveCollection(section_type, store, env, {"embed_ok"})

\* CatchAll with a slip: the exception is raised again.
CatchAll_Reraise(r) == r

\* Lines 216-220: the outer `except Exception` prints the error and returns "".
CatchAll(r) == IF r.exc THEN [r EXCEPT !.exc = FALSE, !.ctx = <<>>] ELSE r

\* OllamaClient._retrieve_rag_context.
retrieve_rag_context(query, section_type, store, env) ==
    CatchAll(RetrieveBody(query, section_type, store, env))

\* The calls of a retrieval that failed under env.
Failures(env, used) == {f \in used : env[f] # HealthyEnv[f]}

\* -------------------------------------------------------- prompt templates
\* OllamaClient.generate_response, lines 241-290.  The literal lines of the
\* two f-strings are tokens; the interpolated values are spliced in.

PromptRole == "You are a D&D assistant for beginners."
InstructionsHeader == "INSTRUCTIONS:"
QuestionHeader == "USER QUESTION:"
AnswerHeader == "ANSWER:"
Rule == "---"
DatabaseHeader == "RELEVANT INFORMATION FROM THE DATABASE:"
ContentHeader == "BASIC INFORMATION OF THE SECTION:"
PlainHeader == "CONTEXT OF THE CURRENT SECTION"

\* Lines 258-261: the numbered instructions of the template with RAG context.
GroundedInstructions ==
    <<"1. Use the database information above to answer the question.",
      "2. Answer briefly, clearly and kindly in Russian.",
      "3. Give concrete examples from the information received.",
      "4. If the information is incomplete or the question is outside the section, suggest opening the matching section.">>

\* The section commands listed in lines 277-284, in the order of the source.
SectionCommandList ==
    <<"/races", "/classes", "/rules", "/dice", "/combat", "/spells", "/glossary", "/stats">>

\* Lines 276-285: the numbered instructions of the template without RAG context.
PlainInstructions ==
    <<"1. If the question is about the content of this section, answer it briefly, clearly and kindly in Russian.",
      "2. If the question is NOT about this section, suggest opening the matching section (give its name) SECTION NAMES(">>
    \o SectionCommandList
    \o <<").", "3. Always give D&D examples when it fits.">>

\* GroundedPrompt with a slip: the section content before the documents.
GroundedPrompt_ContentFirst(user_message, section_name, section_content, rag_context) ==
    <<PromptRole, "SECTION:", section_name, ContentHeader>>
    \o section_content
    \o <<Rule, DatabaseHeader>>
    \o rag_context
    \o <<Rule, InstructionsHeader>>
    \o GroundedInstructions
    \o <<QuestionHeader>>
    \o user_message
    \o <<AnswerHeader>>

\* Lines 243-266.
GroundedPrompt(user_message, section_name, section_content, rag_context) ==
    <<PromptRole, "SECTION:", section_name, DatabaseHeader>>
    \o rag_context
    \o <<Rule, ContentHeader>>
    \o section_content
    \o <<Rule, InstructionsHeader>>
    \o GroundedInstructions
    \o <<QuestionHeader>>
    \o user_message
    \o <<AnswerHeader>>

\* Lines 268-290.
PlainPrompt(user_message, section_name, section_content) ==
    <<PromptRole, PlainHeader, section_name, ":">>
    \o section_content
    \o <<Rule, InstructionsHeader>>
    \o PlainInstructions
    \o <<QuestionHeader>>
    \o user_message
    \o <<AnswerHeader>>

\* BuildPrompt with a slip: the template follows use_rag alone.
BuildPrompt_IgnoringContext(user_message, section_name, section_content, use_rag, rag_context) ==
    IF use_rag
    THEN GroundedPrompt(user_message, section_name, section_content, rag_context)
    ELSE PlainPrompt(user_message, section_name, section_content)

\* Line 242: `if use_rag and rag_context`.
BuildPrompt(user_message, section_name, section_content, use_rag, rag_context) ==
    IF use_rag /\ rag_context # <<>>
    THEN GroundedPrompt(user_message, section_name, section_content, rag_context)
    ELSE PlainPrompt(user_message, section_name, section_content)

\* ------------------------------------------------------ generation request

\* app.py line 1239: the retry of handle_message sends at most this many characters.
MaxRetryChars == 4000

Whitespace == {" ", "\n"}

\* str.strip()
RECURSIVE LStrip(_)
LStrip(s) == IF Len(s) > 0 /\ s[1] \in Whitespace THEN LStrip(Tail(s)) ELSE s

RECURSIVE RStrip(_)
RStrip(s) ==
    IF Len(s) > 0 /\ s[Len(s)] \in Whitespace THEN RStrip(SubSeq(s, 1, Len(s) - 1)) ELSE s

\* Strip with a slip: the text is returned as it came.
Strip_Untrimmed(s) == s

Strip(s) == RStrip(LStrip(s))

\* The transport's limit on the length of one message (the comment of
\* app.py line 1544: Telegram takes 4096 characters).
TransportLimit == 4096

\* A payload one character longer than the transport takes in one message.
LongPayload == [i \in 1..(TransportLimit + 1) |-> "a"]

\* The payloads the endpoint answers with: every short text, and a long one.
Payloads == TextsUpTo({" ", "a"}, MaxPayloadLen) \cup {LongPayload}

\* What POST /api/generate does: the request raises ConnectionError,
\* raises something else (a timeout), answers with a status other than 200,
\* or answers 200 with JSON without the "response" field, or with the field.
GenerationOutcomes ==
    {[kind |-> k, payload |-> <<>>] :
        k \in {"connection_error", "timeout", "http_error", "ok_no_field"}}
    \cup {[kind |-> "ok", payload |-> p] : p \in Payloads}

\* Optional[str]
None == [none |-> TRUE, text |-> <<>>]
Some(text) == [none |-> FALSE, text |-> text]

ConnectionErrorText == <<"Ollama connection error. Make sure the service is running.">>
ErrorText(detail) == <<"Error: ", detail>>

\* PostGenerate with a slip: a connection error gives None like a bad status.
PostGenerate_ConnectionErrorAbsent(outcome) ==
    CASE outcome.kind = "ok" -> Some(Strip(outcome.payload))
      [] outcome.kind = "ok_no_field" -> Some(Strip(<<>>))
      [] outcome.kind = "http_error" -> None
      [] outcome.kind = "connection_error" -> None
      [] outcome.kind = "timeout" -> Some(ErrorText("ReadTimeout"))

\* Lines 292-311: the try block around requests.post.
PostGenerate(outcome) ==
    CASE outcome.kind = "ok" -> Some(Strip(outcome.payload))
      [] outcome.kind = "ok_no_field" -> Some(Strip(<<>>))
      [] outcome.kind = "http_error" -> None
      [] outcome.kind = "connection_error" -> Some(ConnectionErrorText)
      [] outcome.kind = "timeout" -> Some(ErrorText("ReadTimeout"))

\* Truthy with a slip: `if response is not None`.
Truthy_NotNone(response) == ~response.none

\* `if response:` of handle_message: neither None nor "".
Truthy(response) == ~response.none /\ response.text # <<>>

\* ------------------------------------------------------------------ updates

Command(name) == [kind |-> "command", name |-> name, text |-> <<>>]
TextMessage(text) == [kind |-> "text", name |-> "", text |-> text]
NoUpdate == [kind |-> "none", name |-> "", text |-> <<>>]

\* The press of an inline button.  Callback data is a text whose literal
\* prefixes ("race_detail_", "page_", ...) are one token each, followed by
\* the characters of a key, "_" separators and decimal numbers.
CallbackQuery(data) == [kind |-> "callback", name |-> "", text |-> data]

\* The labels of the reply keyboard built by cmd_start (lines 972-978).
BtnCharacter == <<"Create character">>
BtnDice == <<"Dice rolls">>
BtnCombat == <<"Combat system">>
BtnStats == <<"Abilities">>
BtnGlossary == <<"Glossary">>
BtnHelp == <<"Help">>
BtnClasses == <<"Classes">>
BtnRaces == <<"Races">>
BtnSpells == <<"Spells">>

Buttons ==
    {BtnCharacter, BtnDice, BtnCombat, BtnStats, BtnGlossary, BtnHelp, BtnClasses,
     BtnRaces, BtnSpells}

\* Free-text questions a user types.
FreeTexts == {<<"Tell", "me", "about", "elves">>, <<"What is AC?">>}

\* str.startswith
StartsWith(s, prefix) ==
    /\ Len(prefix) <= Len(s)
    /\ SubSeq(s, 1, Len(prefix)) = prefix

\* main(), lines 1660-1698: the command, message and callback-query
\* handlers in registration order.  handle_message is not among them.
Handlers ==
    <<[type |-> "command", arg |-> "start", callback |-> "cmd_start"],
      [type |-> "command", arg |-> "help", callback |-> "cmd_help"],
      [type |-> "command", arg |-> "rules", callback |-> "cmd_rules"],
      [type |-> "command", arg |-> "dice", callback |-> "cmd_dice"],
      [type |-> "command", arg |-> "combat", callback |-> "cmd_combat"],
      [type |-> "command", arg |-> "stats", callback |-> "cmd_stats"],
      [type |-> "command", arg |-> "glossary", callback |-> "cmd_glossary"],
      [type |-> "command", arg |-> "races", callback |-> "cmd_races"],
      [type |-> "command", arg |-> "spells", callback |-> "cmd_spells"],
      [type |-> "command", arg |-> "classes", callback |-> "cmd_classes"],
      [type |-> "text", arg |-> "", callback |-> "handle_reply_keyboard"],
      [type |-> "callback", arg |-> <<"rules_">>, callback |-> "handle_inline_button"],
      [type |-> "callback", arg |-> <<"dice_">>, callback |-> "handle_inline_button"],
      [type |-> "callback", arg |-> <<"combat_">>, callback |-> "handle_inline_button"],
      [type |-> "callback", arg |-> <<"stats_">>, callback |-> "handle_inline_button"],
      [type |-> "callback", arg |-> <<"glossary_">>, callback |-> "handle_inline_button"],
      [type |-> "callback", arg |-> <<"race_page_">>, callback |-> "race_page_callback"],
      [type |-> "callback", arg |-> <<"race_detail_", "page_">>,
       callback |-> "race_page_callback"],
      [type |-> "callback", arg |-> <<"cls_">>, callback |-> "class_callback"],
      [type |-> "callback", arg |-> <<"class_", "page_">>, callback |-> "class_page_callback"],
      [type |-> "callback", arg |-> <<"spell_level_">>, callback |-> "spell_level_callback"],
      [type |-> "callback", arg |-> <<"spell_page_">>, callback |-> "spell_page_callback"],
      [type |-> "callback", arg |-> <<"spell_detail_">>, callback |-> "spell_detail_callback"],
      [type |-> "callback_exact", arg |-> <<"spell_level_", "select">>,
       callback |-> "spell_level_select_callback"],
      [type |-> "callback", arg |-> <<"race_detail_">>, callback |-> "race_callback"]>>

\* CommandHandler(arg) takes the command of that name; the MessageHandler
\* with filters.TEXT & ~filters.COMMAND takes every text that is no command;
\* CallbackQueryHandler(pattern="^p") takes the callback data that start
\* with p, and pattern="^p$" the data that are p.
Matches(h, upd) ==
    \/ h.type = "command" /\ upd.kind = "command" /\ upd.name = h.arg
    \/ h.type = "text" /\ upd.kind = "text"
    \/ h.type = "callback" /\ upd.kind = "callback" /\ StartsWith(upd.text, h.arg)
    \/ h.type = "callback_exact" /\ upd.kind = "callback" /\ upd.text = h.arg

\* Application.process_update: within the one handler group, the first
\* registered handler that matches gets the update; "" when none does.
Route(upd) ==
    LET hits == {i \in 1..Len(Handlers) : Matches(Handlers[i], upd)}
    IN  IF hits = {} THEN ""
        ELSE Handlers[CHOOSE i \in hits : \A j \in hits : i <= j].callback

Observed(handler, user_id, upd, via) ==
    [handler |-> handler, user_id |-> user_id, update |-> upd, via |-> via]

NoObservation == Observed("", 0, NoUpdate, "")

\* ------------------------------------------------------------ handle_message

NoResponseText == <<"Could not get a response. Check the connection to Ollama.">>
ApologyText == <<"An error occurred while sending the response. Try again later.">>

IdleTask ==
    [pc |-> "idle", user_id |-> 0, user_message |-> <<>>, section_name |-> "",
     section_content |-> <<>>, use_rag |-> FALSE, rag_section_type |-> "",
     retrieve_calls |-> 0, env |-> HealthyEnv, used |-> {}, documents |-> <<>>,
     rag_context |-> <<>>, generate_calls |-> 0, prompt |-> <<>>, outcome |-> "",
     payload |-> <<>>, response |-> None, sent |-> <<>>]

Delivery(text, parse_mode, ok) == [text |-> text, parse_mode |-> parse_mode, ok |-> ok]

\* What reply_text can do with a text: the transport rejects a text over
\* its limit, and may fail or succeed on any other.
DeliveryResults(text) == IF Len(text) > TransportLimit THEN {FALSE} ELSE BOOLEAN

\* Updates are processed one at a time (Application.process_update awaits
\* the handler): a handler starts when the previous one has finished.
Ready == task.pc = "idle" /\ obs.handler = ""

\* UseRag with a slip: every section asks for retrieval.
UseRag_AnySection(section_name) == section_name \in Sections

\* Line 1219.
UseRag(section_name) == section_name \in {"races", "spells", "classes"}

\* HandleMessageBegin with a slip: the section read is the one of the user
\* who chose a section first, whoever sent the message.
HandleMessageBegin_SharedSession(u, msg) ==
    /\ Ready
    /\ LET owner == IF DOMAIN user_sessions = {} THEN u
                    ELSE CHOOSE x \in DOMAIN user_sessions :
                            \A y \in DOMAIN user_sessions : x <= y
           s == get_current_section(user_sessions, owner)
           use_rag == UseRag(s.section)
       IN  \E sent_ok \in BOOLEAN :
             task' = [IdleTask EXCEPT
                        !.pc = IF sent_ok THEN "retrieve" ELSE "raised",
                        !.user_id = u,
                        !.user_message = msg,
                        !.section_name = s.section,
                        !.section_content = s.content,
                        !.use_rag = use_rag,
                        !.rag_section_type = IF use_rag THEN s.section ELSE ""]
    /\ obs' = Observed("handle_message", u, TextMessage(msg), "direct")
    /\ UNCHANGED <<call, user_sessions, chroma>>

\* handle_message, lines 1207-1222: read the user's section, decide on
\* RAG, send the typing action.  A failing send_action raises out of the handler.
HandleMessageBegin(u, msg) ==
    /\ Ready
    /\ LET s == get_current_section(user_sessions, u)
           use_rag == UseRag(s.section)
       IN  \E sent_ok \in BOOLEAN :
             task' = [IdleTask EXCEPT
                        !.pc = IF sent_ok THEN "retrieve" ELSE "raised",
                        !.user_id = u,
                        !.user_message = msg,
                        !.section_name = s.section,
                        !.section_content = s.content,
                        !.use_rag = use_rag,
                        !.rag_section_type = IF use_rag THEN s.section ELSE ""]
    /\ obs' = Observed("handle_message", u, TextMessage(msg), "direct")
    /\ UNCHANGED <<call, user_sessions, chroma>>

\* generate_response, lines 236-239: the retrieval, only under use_rag.
GenerateRetrieve ==
    /\ task.pc = "retrieve"
    /\ IF task.use_rag
       THEN \E env \in RetrievalEnvs :
              LET r == retrieve_rag_context(task.user_message, task.rag_section_type,
                                            chroma, env)
              IN  /\ \A f \in (DOMAIN env) \ r.used : env[f] = HealthyEnv[f]
                  /\ task' = [task EXCEPT
                                !.pc = IF r.exc THEN "raised" ELSE "post",
                                !.retrieve_calls = @ + 1,
                                !.env = env,
                                !.used = r.used,
                                !.documents = r.docs,
                                !.rag_context = r.ctx]
                  /\ chroma' = r.store
       ELSE /\ task' = [task EXCEPT !.pc = "post"]
            /\ UNCHANGED chroma
    /\ UNCHANGED <<call, user_sessions, obs>>

\* generate_response, lines 241-302: build the prompt and post it.
GenerateSend ==
    /\ task.pc = "post"
    /\ task' = [task EXCEPT
                  !.pc = "await",
                  !.generate_calls = @ + 1,
                  !.prompt = BuildPrompt(task.user_message, task.section_name,
                                         task.section_content, task.use_rag,
                                         task.rag_context)]
    /\ UNCHANGED <<call, user_sessions, chroma, obs>>

\* generate_response, lines 292-311: the request ends and generate_response
\* returns; its locals are gone, handle_message holds the response.
GenerateReceive ==
    /\ task.pc = "await"
    /\ \E outcome \in GenerationOutcomes :
         task' = [task EXCEPT
                    !.pc = "reply",
                    !.env = HealthyEnv,
                    !.used = {},
                    !.documents = <<>>,
                    !.rag_context = <<>>,
                    !.prompt = <<>>,
                    !.outcome = outcome.kind,
                    !.payload = outcome.payload,
                    !.response = PostGenerate(outcome)]
    /\ UNCHANGED <<call, user_sessions, chroma, obs>>

\* handle_message, lines 1232-1234 and 1245-1248: the first reply.
HandleMessageReply ==
    /\ task.pc = "reply"
    /\ \E ok \in DeliveryResults(IF Truthy(task.response) THEN task.response.text
                                 ELSE NoResponseText) :
         IF Truthy(task.response)
         THEN task' = [task EXCEPT
                         !.pc = IF ok THEN "done" ELSE "retry",
                         !.sent = Append(@, Delivery(task.response.text, "HTML", ok))]
         ELSE task' = [task EXCEPT
                         !.pc = IF ok THEN "done" ELSE "raised",
                         !.sent = Append(@, Delivery(NoResponseText, "", ok))]
    /\ UNCHANGED <<call, user_sessions, chroma, obs>>

\* HandleMessageRetry with a slip: the failed delivery runs generate_response again.
HandleMessageRetry_Regenerate ==
    /\ task.pc = "retry"
    /\ task' = [task EXCEPT !.pc = IF task.use_rag THEN "retrieve" ELSE "post"]
    /\ UNCHANGED <<call, user_sessions, chroma, obs>>

\* HandleMessageRetry with a slip: the retry sends the whole response.
HandleMessageRetry_Untruncated ==
    /\ task.pc = "retry"
    /\ \E ok \in DeliveryResults(task.response.text) :
         task' = [task EXCEPT
                    !.pc = IF ok THEN "done" ELSE "apology",
                    !.sent = Append(@, Delivery(task.response.text, "", ok))]
    /\ UNCHANGED <<call, user_sessions, chroma, obs>>

\* Lines 1235-1240: the retry without formatting, cut to 4000 characters.
HandleMessageRetry ==
    /\ task.pc = "retry"
    /\ LET response == task.response.text
           short_response ==
               IF Len(response) > MaxRetryChars THEN Slice(response, 1, MaxRetryChars)
               ELSE response
       IN  \E ok \in DeliveryResults(short_response) :
             task' = [task EXCEPT
                        !.pc = IF ok THEN "done" ELSE "apology",
                        !.sent = Append(@, Delivery(short_response, "", ok))]
    /\ UNCHANGED <<call, user_sessions, chroma, obs>>

\* Lines 1241-1244: the apology after the second failure.
HandleMessageApology ==
    /\ task.pc = "apology"
    /\ \E ok \in DeliveryResults(ApologyText) :
         task' = [task EXCEPT
                    !.pc = IF ok THEN "done" ELSE "raised",
                    !.sent = Append(@, Delivery(ApologyText, "", ok))]
    /\ UNCHANGED <<call, user_sessions, chroma, obs>>

\* The handler has returned (or its exception has reached the caller):
\* the next update can be taken.
UpdateDone ==
    /\ obs.handler # ""
    /\ task.pc \in {"idle", "done", "raised"}
    /\ task' = IdleTask
    /\ obs' = NoObservation
    /\ UNCHANGED <<call, user_sessions, chroma>>

\* ------------------------------------------------------- command handlers
\* Each handler runs when the Application routes the update to it; the
\* handlers set the section first and reply afterwards.

\* The session write shared by the section handlers.
SelectSection(u, upd, handler, section, content) ==
    /\ Ready
    /\ user_sessions' = set_section(user_sessions, u, section, content)
    /\ obs' = Observed(handler, u, upd, "application")
    /\ UNCHANGED <<call, chroma, task>>

\* A handler that only replies.
ReplyOnly(u, upd, handler) ==
    /\ Ready
    /\ obs' = Observed(handler, u, upd, "application")
    /\ UNCHANGED <<call, user_sessions, chroma, task>>

\* Lines 968-985.
cmd_start(u) ==
    /\ ReplyOnly(u, Command("start"), "cmd_start")
    /\ Route(Command("start")) = "cmd_start"

\* Lines 1250-1252.
cmd_help(u) ==
    /\ ReplyOnly(u, Command("help"), "cmd_help")
    /\ Route(Command("help")) = "cmd_help"

\* Lines 1254-1266.
cmd_rules(u) ==
    /\ SelectSection(u, Command("rules"), "cmd_rules", "rules", RULES_TEXT)
    /\ Route(Command("rules")) = "cmd_rules"

\* Lines 1268-1280.
cmd_dice(u) ==
    /\ SelectSection(u, Command("dice"), "cmd_dice", "dice", DICE_TEXT)
    /\ Route(Command("dice")) = "cmd_dice"

\* Lines 1282-1299.
cmd_combat(u) ==
    /\ SelectSection(u, Command("combat"), "cmd_combat", "combat", COMBAT_TEXT)
    /\ Route(Command("combat")) = "cmd_combat"

\* Lines 1301-1318.
cmd_stats(u) ==
    /\ SelectSection(u, Command("stats"), "cmd_stats", "stats", STATS_TEXT)
    /\ Route(Command("stats")) = "cmd_stats"

\* Lines 1320-1335.
cmd_glossary(u) ==
    /\ SelectSection(u, Command("glossary"), "cmd_glossary", "glossary", GLOSSARY_TEXT)
    /\ Route(Command("glossary")) = "cmd_glossary"

\* Lines 1337-1348.
cmd_classes(u) ==
    /\ SelectSection(u, Command("classes"), "cmd_classes", "classes", <<>>)
    /\ Route(Command("classes")) = "cmd_classes"

\* cmd_races with a slip: the tag is written in the singular.
cmd_races_WrongTag(u) ==
    /\ SelectSection(u, Command("races"), "cmd_races", "race", <<>>)
    /\ Route(Command("races")) = "cmd_races"

\* Lines 1350-1360.
cmd_races(u) ==
    /\ SelectSection(u, Command("races"), "cmd_races", "races", <<>>)
    /\ Route(Command("races")) = "cmd_races"

\* Lines 1362-1372.
cmd_spells(u) ==
    /\ SelectSection(u, Command("spells"), "cmd_spells", "spells", <<>>)
    /\ Route(Command("spells")) = "cmd_spells"

\* handle_reply_keyboard with a slip: the dice button stores the page it
\* shows instead of the five parts.
handle_reply_keyboard_FirstPartOnly(u, text) ==
    /\ Ready
    /\ Route(TextMessage(text)) = "handle_reply_keyboard"
    /\ CASE text = BtnDice ->
              SelectSection(u, TextMessage(text), "handle_reply_keyboard", "dice",
                            <<"DICE_RULES_TEXT_PART1">>)
         [] text = BtnCombat ->
              SelectSection(u, TextMessage(text), "handle_reply_keyboard", "combat", COMBAT_TEXT)
         [] text = BtnStats ->
              SelectSection(u, TextMessage(text), "handle_reply_keyboard", "stats", STATS_TEXT)
         [] text = BtnGlossary ->
              SelectSection(u, TextMessage(text), "handle_reply_keyboard", "glossary", GLOSSARY_TEXT)
         [] text = BtnClasses ->
              SelectSection(u, TextMessage(text), "handle_reply_keyboard", "classes", <<>>)
         [] text = BtnRaces ->
              SelectSection(u, TextMessage(text), "handle_reply_keyboard", "races", <<>>)
         [] text = BtnSpells ->
              SelectSection(u, TextMessage(text), "handle_reply_keyboard", "spells", <<>>)
         [] OTHER ->
              ReplyOnly(u, TextMessage(text), "handle_reply_keyboard")

\* handle_reply_keyboard, lines 987-1072: the text is compared with the
\* button labels; a text that is no label falls through every branch.
handle_reply_keyboard(u, text) ==
    /\ Ready
    /\ Route(TextMessage(text)) = "handle_reply_keyboard"
    /\ CASE text = BtnDice ->
              SelectSection(u, TextMessage(text), "handle_reply_keyboard", "dice", DICE_TEXT)
         [] text = BtnCombat ->
              SelectSection(u, TextMessage(text), "handle_reply_keyboard", "combat", COMBAT_TEXT)
         [] text = BtnStats ->
              SelectSection(u, TextMessage(text), "handle_reply_keyboard", "stats", STATS_TEXT)
         [] text = BtnGlossary ->
              SelectSection(u, TextMessage(text), "handle_reply_keyboard", "glossary", GLOSSARY_TEXT)
         [] text = BtnClasses ->
              SelectSection(u, TextMessage(text), "handle_reply_keyboard", "classes", <<>>)
         [] text = BtnRaces ->
              SelectSection(u, TextMessage(text), "handle_reply_keyboard", "races", <<>>)
         [] text = BtnSpells ->
              SelectSection(u, TextMessage(text), "handle_reply_keyboard", "spells", <<>>)
         [] OTHER ->
              ReplyOnly(u, TextMessage(text), "handle_reply_keyboard")

\* ------------------------------------------------ callback-query handlers
\* The handlers answer the query and edit the message; none of them uses
\* UserSession.

\* Callback data of buttons pressed while the sessions are observed.
PressedData ==
    {<<"rules_", "1">>, <<"stats_", "9">>, <<"race_page_", "2">>,
     <<"race_detail_", "page_", "E", "l", "f", "_", "2">>,
     <<"race_detail_", "E", "l", "f">>,
     <<"cls_", "1a2b3c4d", "_", "m", "_", "1">>, <<"class_", "page_", "1">>,
     <<"spell_level_", "cantrips">>, <<"spell_level_", "select">>,
     <<"spell_page_", "1", "_", "2">>, <<"spell_detail_", "1", "_", "0", "_", "1">>}

\* Lines 1074-1158.
handle_inline_button(u, data) ==
    /\ ReplyOnly(u, CallbackQuery(data), "handle_inline_button")
    /\ Route(CallbackQuery(data)) = "handle_inline_button"

\* race_callback with a slip: opening a race selects the races section.
race_callback_SelectsSection(u, data) ==
    /\ SelectSection(u, CallbackQuery(data), "race_callback", "races", <<>>)
    /\ Route(CallbackQuery(data)) = "race_callback"

\* Lines 1374-1403.
race_callback(u, data) ==
    /\ ReplyOnly(u, CallbackQuery(data), "race_callback")
    /\ Route(CallbackQuery(data)) = "race_callback"

\* Lines 1406-1448.
race_page_callback(u, data) ==
    /\ ReplyOnly(u, CallbackQuery(data), "race_page_callback")
    /\ Route(CallbackQuery(data)) = "race_page_callback"

\* Lines 1461-1476.  It also takes "spell_level_select": its pattern is
\* registered before that of spell_level_select_callback (lines 1452-1458),
\* which therefore never runs.
spell_level_callback(u, data) ==
    /\ ReplyOnly(u, CallbackQuery(data), "spell_level_callback")
    /\ Route(CallbackQuery(data)) = "spell_level_callback"

\* Lines 1479-1502.
spell_page_callback(u, data) ==
    /\ ReplyOnly(u, CallbackQuery(data), "spell_page_callback")
    /\ Route(CallbackQuery(data)) = "spell_page_callback"

\* Lines 1505-1551.
spell_detail_callback(u, data) ==
    /\ ReplyOnly(u, CallbackQuery(data), "spell_detail_callback")
    /\ Route(CallbackQuery(data)) = "spell_detail_callback"

\* Lines 1590-1636.
class_callback(u, data) ==
    /\ ReplyOnly(u, CallbackQuery(data), "class_callback")
    /\ Route(CallbackQuery(data)) = "class_callback"

\* Lines 1639-1652.
class_page_callback(u, data) ==
    /\ ReplyOnly(u, CallbackQuery(data), "class_page_callback")
    /\ Route(CallbackQuery(data)) = "class_page_callback"

\* No formatting or keyboard function is being run.
NoCall == [fn |-> ""]

\* ---------------------------------------------------------- specification

NoSessions == [u \in {} |-> DefaultSession]

Init ==
    /\ user_sessions = NoSessions
    /\ \E deployment \in Deployments : chroma = init_chroma_clients(deployment)
    /\ task = IdleTask
    /\ obs = NoObservation
    /\ call = NoCall

Next ==
    \/ \E u \in Users : cmd_start(u)
    \/ \E u \in Users : cmd_help(u)
    \/ \E u \in Users : cmd_rules(u)
    \/ \E u \in Users : cmd_dice(u)
    \/ \E u \in Users : cmd_combat(u)
    \/ \E u \in Users : cmd_stats(u)
    \/ \E u \in Users : cmd_glossary(u)
    \/ \E u \in Users : cmd_classes(u)
    \/ \E u \in Users : cmd_races(u)
    \/ \E u \in Users : cmd_spells(u)
    \/ \E u \in Users, text \in Buttons \cup FreeTexts : handle_reply_keyboard(u, text)
    \/ \E u \in Users, data \in PressedData : handle_inline_button(u, data)
    \/ \E u \in Users, data \in PressedData : race_callback(u, data)
    \/ \E u \in Users, data \in PressedData : race_page_callback(u, data)
    \/ \E u \in Users, data \in PressedData : spell_level_callback(u, data)
    \/ \E u \in Users, data \in PressedData : spell_page_callback(u, data)
    \/ \E u \in Users, data \in PressedData : spell_detail_callback(u, data)
    \/ \E u \in Users, data \in PressedData : class_callback(u, data)
    \/ \E u \in Users, data \in PressedData : class_page_callback(u, data)
    \/ \E u \in Users, msg \in FreeTexts : HandleMessageBegin(u, msg)
    \/ GenerateRetrieve
    \/ GenerateSend
    \/ GenerateReceive
    \/ HandleMessageReply
    \/ HandleMessageRetry
    \/ HandleMessageApology
    \/ UpdateDone

Spec == Init /\ [][Next]_vars

\* ------------------------------------------------------------ split_message

\* str.split("\n"): the pieces between the line breaks, one more than there
\* are line breaks.
RECURSIVE SplitLines(_)
SplitLines(text) ==
    IF \A i \in 1..Len(text) : text[i] # "\n" THEN <<text>>
    ELSE LET k == CHOOSE i \in 1..Len(text) :
                      text[i] = "\n" /\ \A j \in 1..(i - 1) : text[j] # "\n"
         IN  <<SubSeq(text, 1, k - 1)>> \o SplitLines(SubSeq(text, k + 1, Len(text)))

\* The texts and the limits split_message is called with.
SplitTexts == TextsUpTo({"a", " ", "\n"}, MaxSplitTextLen)
SplitLimits == 1..MaxSplitLimit

\* The bot is idle while a formatting or keyboard function is examined.
NoStores == [races |-> "absent", spells |-> "absent", classes |-> "absent"]

BotIdle ==
    /\ user_sessions = NoSessions
    /\ chroma = init_chroma_clients(NoStores)
    /\ task = IdleTask
    /\ obs = NoObservation

\* split_message(text, limit) has been called.
SplitInit ==
    /\ BotIdle
    /\ \E text \in SplitTexts, limit \in SplitLimits :
          call = [fn |-> "split_message", pc |-> "entry", text |-> text, limit |-> limit,
                  lines |-> <<>>, parts |-> <<>>, current |-> <<>>]

\* Lines 288-293: a text within the limit is returned as the only part;
\* otherwise the loop over text.split("\n") starts with no part and an
\* empty current.
SplitBegin ==
    /\ call.fn = "split_message"
    /\ call.pc = "entry"
    /\ call' = IF Len(call.text) <= call.limit
               THEN [call EXCEPT !.pc = "return", !.parts = <<call.text>>]
               ELSE [call EXCEPT !.pc = "loop", !.lines = SplitLines(call.text)]
    /\ UNCHANGED <<user_sessions, chroma, task, obs>>

\* split_message with a slip: the paragraph that does not fit is not
\* carried over to the next part.
SplitLine_LosesOverflow ==
    /\ call.fn = "split_message"
    /\ call.pc = "loop"
    /\ call.lines # <<>>
    /\ LET paragraph == RStrip(Head(call.lines))
           extra_length == Len(paragraph) + (IF call.current # <<>> THEN 1 ELSE 0)
       IN  call' =
             IF Len(call.current) + extra_length <= call.limit
             THEN [call EXCEPT
                     !.lines = Tail(@),
                     !.current = IF call.current # <<>>
                                 THEN call.current \o <<"\n">> \o paragraph
                                 ELSE paragraph]
             ELSE [call EXCEPT
                     !.lines = Tail(@),
                     !.parts = IF call.current # <<>> THEN Append(@, call.current) ELSE @,
                     !.current = <<>>]
    /\ UNCHANGED <<user_sessions, chroma, task, obs>>

\* Lines 296-306: one pass of the loop.  The paragraph is right-stripped;
\* it joins current behind a line break when both fit the limit, otherwise
\* a non-empty current becomes a part and the paragraph the new current.
SplitLine ==
    /\ call.fn = "split_message"
    /\ call.pc = "loop"
    /\ call.lines # <<>>
    /\ LET paragraph == RStrip(Head(call.lines))
           extra_length == Len(paragraph) + (IF call.current # <<>> THEN 1 ELSE 0)
       IN  call' =
             IF Len(call.current) + extra_length <= call.limit
             THEN [call EXCEPT
                     !.lines = Tail(@),
                     !.current = IF call.current # <<>>
                                 THEN call.current \o <<"\n">> \o paragraph
                                 ELSE paragraph]
             ELSE [call EXCEPT
                     !.lines = Tail(@),
                     !.parts = IF call.current # <<>> THEN Append(@, call.current) ELSE @,
                     !.current = paragraph]
    /\ UNCHANGED <<user_sessions, chroma, task, obs>>

\* Lines 307-310: a non-empty current is the last part; parts is returned.
SplitEnd ==
    /\ call.fn = "split_message"
    /\ call.pc = "loop"
    /\ call.lines = <<>>
    /\ call' = [call EXCEPT
                  !.pc = "return",
                  !.parts = IF call.current # <<>> THEN Append(@, call.current) ELSE @,
                  !.current = <<>>]
    /\ UNCHANGED <<user_sessions, chroma, task, obs>>

SplitNext ==
    \/ SplitBegin
    \/ SplitLine
    \/ SplitEnd

SplitSpec == SplitInit /\ [][SplitNext]_vars

\* ---------------------------------------------------------- inline keyboards
\* The keyboard builders and the callback-query handlers that answer the
\* presses.  A button is its label and its callback data; a screen is what
\* the edited message shows.

Button(text, callback_data) == [text |-> text, callback_data |-> callback_data]

Screen(kind, subject, current_page, total_pages) ==
    [kind |-> kind, subject |-> subject, current_page |-> current_page,
     total_pages |-> total_pages]

\* What a handler leaves: the message it shows with its keyboard, an error
\* message without keyboard, or an exception that reaches the Application.
Shown(screen, keyboard) == [outcome |-> "shown", screen |-> screen, keyboard |-> keyboard]
ErrorMessage(kind) ==
    [outcome |-> "error", screen |-> Screen(kind, <<>>, 0, 0), keyboard |-> <<>>]
HandlerRaised(kind) ==
    [outcome |-> "raised", screen |-> Screen(kind, <<>>, 0, 0), keyboard |-> <<>>]

\* The handler falls through its branches and leaves the message as it is.
Ignored(kind) ==
    [outcome |-> "ignored", screen |-> Screen(kind, <<>>, 0, 0), keyboard |-> <<>>]

\* str(n) and int(s) for the numbers that occur in callback data.
Numerals ==
    <<"0", "1", "2", "3", "4", "5", "6", "7", "8", "9", "10", "11", "12", "13", "14",
      "15", "16", "17", "18", "19", "20", "21", "22", "23", "24">>

Str(n) == <<Numerals[n + 1]>>

\* int(s) raises ValueError on a text that is no number.
IsInt(text) == Len(text) = 1 /\ text[1] \in Range(Numerals)
ToInt(text) == CHOOSE n \in 0..(Len(Numerals) - 1) : Numerals[n + 1] = text[1]

\* str.split(sep)
RECURSIVE SplitAt(_, _)
SplitAt(text, sep) ==
    IF \A i \in 1..Len(text) : text[i] # sep THEN <<text>>
    ELSE LET k == CHOOSE i \in 1..Len(text) :
                      text[i] = sep /\ \A j \in 1..(i - 1) : text[j] # sep
         IN  <<SubSeq(text, 1, k - 1)>> \o SplitAt(SubSeq(text, k + 1, Len(text)), sep)

\* str.replace(literal, ""): every occurrence of the literal is removed.
RECURSIVE RemoveAll(_, _)
RemoveAll(text, literal) ==
    IF Len(text) < Len(literal) THEN text
    ELSE IF StartsWith(text, literal)
         THEN RemoveAll(SubSeq(text, Len(literal) + 1, Len(text)), literal)
         ELSE <<text[1]>> \o RemoveAll(Tail(text), literal)

\* max(1, (total + page_size - 1) // page_size)
PageCount(total, page_size) ==
    IF (total + page_size - 1) \div page_size < 1 THEN 1
    ELSE (total + page_size - 1) \div page_size

\* min(max(1, page), total_pages)
ClampPage(page, total_pages) ==
    LET low == IF page < 1 THEN 1 ELSE page
    IN  IF low < total_pages THEN low ELSE total_pages

\* ---- the section pagers of handle_inline_button

\* The parts the pager of a section shows (lines 1091-1151).
SectionParts(section) ==
    CASE section = "rules" -> RULES_TEXT
      [] section = "dice" -> DICE_TEXT
      [] section = "combat" -> COMBAT_TEXT
      [] section = "stats" -> STATS_TEXT
      [] section = "glossary" -> GLOSSARY_TEXT

PagedSections == {"rules", "dice", "combat", "stats", "glossary"}

\* f"{prefix}_": the literal in front of the part number.
SectionPrefix(section) ==
    CASE section = "rules" -> "rules_"
      [] section = "dice" -> "dice_"
      [] section = "combat" -> "combat_"
      [] section = "stats" -> "stats_"
      [] section = "glossary" -> "glossary_"

\* create_nav_buttons, lines 1080-1087: Back above part 0, Next below the
\* last part; the parts are numbered from 0.
create_nav_buttons(current, total, prefix) ==
    (IF current > 0
     THEN <<Button(<<"Back">>, <<SectionPrefix(prefix)>> \o Str(current - 1))>> ELSE <<>>)
    \o (IF current < total - 1
        THEN <<Button(<<"Next">>, <<SectionPrefix(prefix)>> \o Str(current + 1))>> ELSE <<>>)

\* The reply of a section command (lines 1001, 1018, 1035, 1050, 1259-1328):
\* the first part with one button to part 1.
SectionOpened(section) ==
    Shown(Screen(section, <<>>, 0, Len(SectionParts(section))),
          <<Button(<<"Next">>, <<SectionPrefix(section)>> \o Str(1))>>)

\* The body of handle_inline_button, lines 1090-1157: the part number is
\* data.split("_")[1]; int() and parts[part_num] raise on a wrong one.
InlineButtonResult(data) ==
    LET section == CHOOSE sec \in PagedSections : data[1] = SectionPrefix(sec)
        field == SplitAt(Tail(data), "_")[1]
    IN  IF ~IsInt(field) THEN HandlerRaised(section)
        ELSE IF ToInt(field) >= Len(SectionParts(section)) THEN HandlerRaised(section)
        ELSE Shown(Screen(section, <<>>, ToInt(field), Len(SectionParts(section))),
                   create_nav_buttons(ToInt(field), Len(SectionParts(section)), section))

\* ---- races

\* Callback data carry at most this many characters of a race key (line 155).
CallbackKeyLen == 20

\* page_size of build_races_page and LINES_PER_PAGE of build_race_detail_page.
RacesPageSize == 10
LINES_PER_PAGE == 12

\* The letters of the race names; capitals stand for the English letters
\* that follow the name in a key of races_data.json.
Letters ==
    <<"a", "b", "c", "d", "e", "f", "g", "h", "i", "j", "k", "l", "m", "n", "o", "p",
      "q", "r", "s", "t", "u", "v", "w", "x", "y", "z">>
EnglishLetters == {"E", "N"}

\* The races data: the keys of RACES_DATA in file order, the names of
\* races_descriptions_formatted.txt, and the number of text lines the
\* detail of each key has.
ManyRaces(n) ==
    [keys |-> [i \in 1..n |-> <<Letters[i], "E", "N">>],
     names |-> [i \in 1..n |-> <<Letters[i]>>],
     lines |-> [i \in 1..n |-> 5 + LINES_PER_PAGE * (i % 3)]]

KeyStem == [i \in 1..CallbackKeyLen |-> "a"]

\* Two keys that agree in their first 20 characters.
SharedPrefixRaces ==
    [keys |-> <<KeyStem \o <<"x", "E">>, KeyStem \o <<"y", "E">>>>,
     names |-> <<KeyStem \o <<"x">>, KeyStem \o <<"y">>>>,
     lines |-> <<5, 17>>]

\* A key whose first 20 characters occur inside an earlier key.
SubstringRaces ==
    [keys |-> <<<<"z">> \o KeyStem \o <<"E">>, KeyStem \o <<"y", "E">>>>,
     names |-> <<<<"z">> \o KeyStem, KeyStem \o <<"y">>>>,
     lines |-> <<5, 17>>]

\* A short key that occurs inside an earlier key.
NestedNameRaces ==
    [keys |-> <<<<"h", "a", "l", "f", "e", "l", "f", "E">>, <<"e", "l", "f", "E">>>>,
     names |-> <<<<"h", "a", "l", "f", "e", "l", "f">>, <<"e", "l", "f">>>>,
     lines |-> <<5, 17>>]

NoKey == <<>>

\* The first key of RACES_DATA, in file order, that is one of `hits`; NoKey
\* when none is.
FirstKey(races, hits) ==
    IF \E i \in 1..Len(races.keys) : races.keys[i] \in hits
    THEN races.keys[CHOOSE i \in 1..Len(races.keys) :
                        /\ races.keys[i] \in hits
                        /\ \A j \in 1..(i - 1) : races.keys[j] \notin hits]
    ELSE NoKey

\* resolve_race_key, lines 108-119: the first key that starts with the name.
resolve_race_key(races, display_name) ==
    FirstKey(races, {key \in Range(races.keys) : StartsWith(key, display_name)})

\* Lines 195-198 and 207-210: the name is the key up to its first English
\* letter, the whole key when it has none.
RaceNameOf(key) ==
    IF \E i \in 1..Len(key) : key[i] \in EnglishLetters
    THEN SubSeq(key, 1, (CHOOSE i \in 1..Len(key) :
                            key[i] \in EnglishLetters
                            /\ \A j \in 1..(i - 1) : key[j] \notin EnglishLetters) - 1)
    ELSE key

\* Lines 150-159: the button of one race of the list.
RaceButton(races, name) ==
    LET race_key == resolve_race_key(races, name)
    IN  IF race_key # NoKey
        THEN Button(name, <<"race_detail_">> \o
                          (IF Len(race_key) > CallbackKeyLen
                           THEN SubSeq(race_key, 1, CallbackKeyLen) ELSE race_key))
        ELSE Button(name, <<"race_detail_">> \o name)

\* build_races_page with a slip: the page is not capped by the last page.
build_races_page_Uncapped(races, page) ==
    LET total == Len(races.names)
        total_pages == PageCount(total, RacesPageSize)
        current_page == IF page < 1 THEN 1 ELSE page
        slice_races == Slice(races.names, (current_page - 1) * RacesPageSize + 1,
                             (current_page - 1) * RacesPageSize + RacesPageSize)
    IN  IF total = 0
        THEN Shown(Screen("races", <<>>, 1, 1),
                   <<Button(<<"Refresh">>, <<"race_page_">> \o Str(1))>>)
        ELSE Shown(Screen("races", <<>>, current_page, total_pages),
                   [i \in 1..Len(slice_races) |-> RaceButton(races, slice_races[i])]
                   \o (IF current_page > 1
                       THEN <<Button(<<"Back">>, <<"race_page_">> \o Str(current_page - 1))>>
                       ELSE <<>>)
                   \o (IF current_page < total_pages
                       THEN <<Button(<<"Next">>, <<"race_page_">> \o Str(current_page + 1))>>
                       ELSE <<>>))

\* build_races_page, lines 122-175.
build_races_page(races, page) ==
    LET total == Len(races.names)
        total_pages == PageCount(total, RacesPageSize)
        current_page == ClampPage(page, total_pages)
        slice_races == Slice(races.names, (current_page - 1) * RacesPageSize + 1,
                             (current_page - 1) * RacesPageSize + RacesPageSize)
    IN  IF total = 0
        THEN Shown(Screen("races", <<>>, 1, 1),
                   <<Button(<<"Refresh">>, <<"race_page_">> \o Str(1))>>)
        ELSE Shown(Screen("races", <<>>, current_page, total_pages),
                   [i \in 1..Len(slice_races) |-> RaceButton(races, slice_races[i])]
                   \o (IF current_page > 1
                       THEN <<Button(<<"Back">>, <<"race_page_">> \o Str(current_page - 1))>>
                       ELSE <<>>)
                   \o (IF current_page < total_pages
                       THEN <<Button(<<"Next">>, <<"race_page_">> \o Str(current_page + 1))>>
                       ELSE <<>>))

\* Lines 189-214 of build_race_detail_page: the first key that starts with
\* race_key or contains it; failing that, the first key whose name is race_key.
FindRace(races, race_key) ==
    LET by_key == FirstKey(races, {key \in Range(races.keys) :
                                       StartsWith(key, race_key) \/ Contains(key, race_key)})
    IN  IF by_key # NoKey THEN by_key
        ELSE FirstKey(races, {key \in Range(races.keys) : RaceNameOf(key) = race_key})

\* The number of text lines of the detail of a key.
DetailLines(races, key) ==
    races.lines[CHOOSE i \in 1..Len(races.keys) : races.keys[i] = key]

\* build_race_detail_page, lines 178-284.
build_race_detail_page(races, race_key, page) ==
    LET found == FindRace(races, race_key)
        total_pages == PageCount(DetailLines(races, found), LINES_PER_PAGE)
        current_page == ClampPage(page, total_pages)
    IN  IF found = NoKey THEN ErrorMessage("race_detail")
        ELSE Shown(Screen("race_detail", found, current_page, total_pages),
                   (IF current_page > 1
                    THEN <<Button(<<"Back">>, <<"race_detail_", "page_">> \o race_key
                                              \o <<"_">> \o Str(current_page - 1))>>
                    ELSE <<>>)
                   \o (IF current_page < total_pages
                       THEN <<Button(<<"Next">>, <<"race_detail_", "page_">> \o race_key
                                                 \o <<"_">> \o Str(current_page + 1))>>
                       ELSE <<>>)
                   \o <<Button(<<"To the list of races">>, <<"race_page_">> \o Str(1))>>)

\* The body of race_callback, lines 1379-1403.
RaceResult(races, data) ==
    IF ~StartsWith(data, <<"race_detail_">>) THEN ErrorMessage("race_detail")
    ELSE build_race_detail_page(races, RemoveAll(data, <<"race_detail_">>), 1)

\* The body of race_page_callback, lines 1411-1448.  A list page that is no
\* number becomes page 1; in a detail page the last field is the page and
\* the fields before it, joined again, are the key.
RacePageResult(races, data) ==
    IF StartsWith(data, <<"race_page_">>)
    THEN LET field == RemoveAll(data, <<"race_page_">>)
         IN  build_races_page(races, IF IsInt(field) THEN ToInt(field) ELSE 1)
    ELSE IF StartsWith(data, <<"race_detail_", "page_">>)
    THEN LET parts == SplitAt(RemoveAll(data, <<"race_detail_", "page_">>), "_")
         IN  IF Len(parts) < 2 THEN Ignored("race_detail")
             ELSE IF ~IsInt(parts[Len(parts)]) THEN ErrorMessage("race_detail")
             ELSE build_race_detail_page(races,
                                         Join(SubSeq(parts, 1, Len(parts) - 1), <<"_">>),
                                         ToInt(parts[Len(parts)]))
    ELSE Ignored("races")

\* ---- spells

\* page_size of build_spells_page.
SpellsPageSize == 8

\* The levels of build_spells_level_selection, lines 363-368.
SpellLevels == <<"cantrips", "1", "2", "3", "4", "5", "6", "7", "8", "9">>

\* The spells data: the number of spells in the file of each level; a level
\* whose file is missing has none.
SpellsOf(n) ==
    [level \in Range(SpellLevels) |->
        CASE level = "cantrips" -> n [] level = "1" -> 3 [] OTHER -> 0]

\* len(load_spells_by_level(level)), lines 315-341: a level without a
\* readable file gives {}.
SpellCount(spells, level) ==
    IF Len(level) = 1 /\ level[1] \in DOMAIN spells THEN spells[level[1]] ELSE 0

ToLevelSelection == Button(<<"To the level selection">>, <<"spell_level_", "select">>)

\* build_spells_level_selection, lines 354-375.
build_spells_level_selection ==
    Shown(Screen("spell_levels", <<>>, 0, 0),
          [i \in 1..Len(SpellLevels) |->
              Button(<<SpellLevels[i]>>, <<"spell_level_", SpellLevels[i]>>)])

\* build_spells_page, lines 378-453.  The spells are numbered from 0 in
\* the sorted list of their names.
build_spells_page(spells, level, page) ==
    LET total == SpellCount(spells, level)
        total_pages == PageCount(total, SpellsPageSize)
        current_page == ClampPage(page, total_pages)
        start == (current_page - 1) * SpellsPageSize
        shown == IF total - start < SpellsPageSize THEN total - start ELSE SpellsPageSize
    IN  IF total = 0 THEN Shown(Screen("no_spells", level, 0, 0), <<ToLevelSelection>>)
        ELSE Shown(Screen("spells", level, current_page, total_pages),
                   [idx \in 1..shown |->
                       Button(<<"spell">> \o Str(start + idx - 1),
                              <<"spell_detail_">> \o level \o <<"_">> \o Str(start + idx - 1)
                              \o <<"_">> \o Str(current_page))]
                   \o (IF current_page > 1
                       THEN <<Button(<<"Back">>, <<"spell_page_">> \o level \o <<"_">>
                                                 \o Str(current_page - 1))>>
                       ELSE <<>>)
                   \o (IF current_page < total_pages
                       THEN <<Button(<<"Next">>, <<"spell_page_">> \o level \o <<"_">>
                                                 \o Str(current_page + 1))>>
                       ELSE <<>>)
                   \o <<ToLevelSelection>>)

\* The body of spell_level_callback, lines 1466-1476.
SpellLevelResult(spells, data) ==
    IF data = <<"spell_level_", "select">> THEN build_spells_level_selection
    ELSE IF StartsWith(data, <<"spell_level_">>)
    THEN build_spells_page(spells, RemoveAll(data, <<"spell_level_">>), 1)
    ELSE Ignored("spells")

\* The body of spell_page_callback, lines 1484-1502.
SpellPageResult(spells, data) ==
    IF StartsWith(data, <<"spell_page_">>)
    THEN LET parts == SplitAt(RemoveAll(data, <<"spell_page_">>), "_")
         IN  IF Len(parts) < 2 THEN Ignored("spells")
             ELSE build_spells_page(spells, parts[1],
                                    IF IsInt(parts[2]) THEN ToInt(parts[2]) ELSE 1)
    ELSE Ignored("spells")

\* The body of spell_detail_callback, lines 1510-1551.
SpellDetailResult(spells, data) ==
    LET parts == SplitAt(RemoveAll(data, <<"spell_detail_">>), "_")
    IN  IF Len(parts) < 3 THEN ErrorMessage("spell_detail")
        ELSE IF ~IsInt(parts[2]) \/ ~IsInt(parts[3]) THEN ErrorMessage("spell_detail")
        ELSE IF ToInt(parts[2]) >= SpellCount(spells, parts[1])
        THEN ErrorMessage("spell_detail")
        ELSE Shown(Screen("spell_detail", parts[1] \o <<"_">> \o parts[2],
                          ToInt(parts[3]), 0),
                   <<Button(<<"Back to the list">>,
                            <<"spell_page_">> \o parts[1] \o <<"_">> \o Str(ToInt(parts[3]))),
                     ToLevelSelection>>)

\* ---- classes

\* The classes data: the name build_classes_simple_page lists, the short
\* id registered for the key ("" when resolve_class_key finds no key, lines
\* 617-645), the number of class abilities and of archetypes, and whether
\* the class has a quick-start section.
ClassesData ==
    <<[name |-> <<"b", "a", "r", "d">>, short_id |-> "0a1b2c3d", abilities |-> 11,
       archetypes |-> 3, quick_start |-> TRUE],
      [name |-> <<"m", "o", "n", "k">>, short_id |-> "9f8e7d6c", abilities |-> 0,
       archetypes |-> 0, quick_start |-> FALSE],
      [name |-> <<"s", "a", "g", "e">>, short_id |-> "", abilities |-> 0,
       archetypes |-> 0, quick_start |-> FALSE]>>

ToClassList == Button(<<"To the list of classes">>, <<"class_", "page_", "1">>)

ClassData(short_id, section, page) ==
    <<"cls_", short_id, "_", section, "_">> \o Str(page)

\* build_classes_simple_page, lines 648-705: a class whose key was found
\* opens its main section under its short id, the other classes get
\* class_<name>.
build_classes_simple_page(classes) ==
    Shown(Screen("classes", <<>>, 0, 0),
          [i \in 1..Len(classes) |->
              IF classes[i].short_id # ""
              THEN Button(classes[i].name, ClassData(classes[i].short_id, "m", 1))
              ELSE Button(classes[i].name, <<"class_">> \o classes[i].name)])

\* The pages of one section of a class, lines 834-909.
ClassSectionPages(class, section) ==
    CASE section = "abilities" -> PageCount(class.abilities, 10)
      [] section = "archetypes" -> PageCount(class.archetypes, 2)
      [] OTHER -> 1

SectionCode(section) ==
    CASE section = "abilities" -> "a"
      [] section = "archetypes" -> "r"
      [] section = "quick_start" -> "q"
      [] OTHER -> "m"

\* format_class_detail, lines 708-966, for the sections class_callback can ask for.
format_class_detail(class, section, page) ==
    LET total_pages == ClassSectionPages(class, section)
        current_page == ClampPage(page, total_pages)
        code == SectionCode(section)
    IN  IF section = "main"
        THEN Shown(Screen("class", <<class.short_id, "main">>, 1, 1),
                   (IF class.abilities > 0
                    THEN <<Button(<<"Abilities">>, ClassData(class.short_id, "a", 1))>>
                    ELSE <<>>)
                   \o (IF class.archetypes > 0
                       THEN <<Button(<<"Archetypes">>, ClassData(class.short_id, "r", 1))>>
                       ELSE <<>>)
                   \o (IF class.quick_start
                       THEN <<Button(<<"Quick start">>, ClassData(class.short_id, "q", 1))>>
                       ELSE <<>>)
                   \o <<ToClassList>>)
        ELSE Shown(Screen("class", <<class.short_id, section>>, current_page, total_pages),
                   (IF section # "quick_start" /\ current_page > 1
                    THEN <<Button(<<"Back">>,
                                  ClassData(class.short_id, code, current_page - 1))>>
                    ELSE <<>>)
                   \o (IF section # "quick_start" /\ current_page < total_pages
                       THEN <<Button(<<"Next">>,
                                     ClassData(class.short_id, code, current_page + 1))>>
                       ELSE <<>>)
                   \o <<Button(<<"Back to the class">>, ClassData(class.short_id, "m", 1)),
                        ToClassList>>)

\* section_map.get(section_code, "main"), lines 1614-1620.
SectionOfCode(code) ==
    CASE code = <<"a">> -> "abilities"
      [] code = <<"r">> -> "archetypes"
      [] code = <<"q">> -> "quick_start"
      [] OTHER -> "main"

\* The body of class_callback, lines 1595-1636.
ClassResult(classes, data) ==
    IF ~StartsWith(data, <<"cls_">>) THEN ErrorMessage("class")
    ELSE LET parts == SplitAt(RemoveAll(data, <<"cls_">>), "_")
         IN  IF Len(parts) < 3 THEN ErrorMessage("class")
             ELSE IF \A i \in 1..Len(classes) :
                        classes[i].short_id = "" \/ <<classes[i].short_id>> # parts[1]
             THEN ErrorMessage("class")
             ELSE format_class_detail(
                      classes[CHOOSE i \in 1..Len(classes) : <<classes[i].short_id>> = parts[1]],
                      SectionOfCode(parts[2]),
                      IF IsInt(parts[3]) THEN ToInt(parts[3]) ELSE 1)

\* The body of class_page_callback, lines 1644-1652.
ClassPageResult(classes, data) ==
    IF data = <<"info">> THEN Ignored("classes") ELSE build_classes_simple_page(classes)

\* ---- the conversation about one keyboard

\* What the files under data_pars hold.
RaceWorlds ==
    {ManyRaces(n) : n \in 0..MaxRaces}
    \cup {SharedPrefixRaces, SubstringRaces, NestedNameRaces}

Worlds ==
    {[races |-> r, spells |-> SpellsOf(MaxSpells), classes |-> ClassesData] : r \in RaceWorlds}
    \cup {[races |-> ManyRaces(MaxRaces), spells |-> SpellsOf(n), classes |-> ClassesData] :
            n \in 0..MaxSpells}

NoButton == Button(<<>>, <<>>)

\* The message a section command replies with (lines 1254-1372).
CommandReply(world, section) ==
    CASE section \in PagedSections -> SectionOpened(section)
      [] section = "races" -> build_races_page(world.races, 1)
      [] section = "spells" -> build_spells_level_selection
      [] section = "classes" -> build_classes_simple_page(world.classes)

\* The user looks at the reply of a section command.
NavInit ==
    /\ BotIdle
    /\ \E world \in Worlds, section \in Sections :
          call = [fn |-> "keyboard", world |-> world, handler |-> "", pressed |-> NoButton,
                  outcome |-> "shown", screen |-> CommandReply(world, section).screen,
                  keyboard |-> CommandReply(world, section).keyboard]

\* The user presses button i of the keyboard, the Application routes the
\* callback query to `handler`, and the handler ends with result r.  A handler
\* that raises or falls through leaves the message as it is.
Pressed(handler, i, r) ==
    /\ Route(CallbackQuery(call.keyboard[i].callback_data)) = handler
    /\ call' = IF r.outcome \in {"shown", "error"}
               THEN [call EXCEPT !.handler = handler, !.pressed = call.keyboard[i],
                                 !.outcome = r.outcome, !.screen = r.screen,
                                 !.keyboard = r.keyboard]
               ELSE [call EXCEPT !.handler = handler, !.pressed = call.keyboard[i],
                                 !.outcome = r.outcome]
    /\ UNCHANGED <<user_sessions, chroma, task, obs>>

InlineButtonPressed ==
    /\ call.fn = "keyboard"
    /\ \E i \in 1..Len(call.keyboard) :
          Pressed("handle_inline_button", i,
                  InlineButtonResult(call.keyboard[i].callback_data))

RacePressed ==
    /\ call.fn = "keyboard"
    /\ \E i \in 1..Len(call.keyboard) :
          Pressed("race_callback", i,
                  RaceResult(call.world.races, call.keyboard[i].callback_data))

RacePagePressed ==
    /\ call.fn = "keyboard"
    /\ \E i \in 1..Len(call.keyboard) :
          Pressed("race_page_callback", i,
                  RacePageResult(call.world.races, call.keyboard[i].callback_data))

SpellLevelPressed ==
    /\ call.fn = "keyboard"
    /\ \E i \in 1..Len(call.keyboard) :
          Pressed("spell_level_callback", i,
                  SpellLevelResult(call.world.spells, call.keyboard[i].callback_data))

SpellPagePressed ==
    /\ call.fn = "keyboard"
    /\ \E i \in 1..Len(call.keyboard) :
          Pressed("spell_page_callback", i,
                  SpellPageResult(call.world.spells, call.keyboard[i].callback_data))

SpellDetailPressed ==
    /\ call.fn = "keyboard"
    /\ \E i \in 1..Len(call.keyboard) :
          Pressed("spell_detail_callback", i,
                  SpellDetailResult(call.world.spells, call.keyboard[i].callback_data))

ClassPressed ==
    /\ call.fn = "keyboard"
    /\ \E i \in 1..Len(call.keyboard) :
          Pressed("class_callback", i,
                  ClassResult(call.world.classes, call.keyboard[i].callback_data))

ClassPagePressed ==
    /\ call.fn = "keyboard"
    /\ \E i \in 1..Len(call.keyboard) :
          Pressed("class_page_callback", i,
                  ClassPageResult(call.world.classes, call.keyboard[i].callback_data))

\* No registered pattern matches the data: the Application drops the query.
UnhandledPressed ==
    /\ call.fn = "keyboard"
    /\ \E i \in 1..Len(call.keyboard) :
          Pressed("", i,
                  Ignored("unhandled"))

NavNext ==
    \/ InlineButtonPressed
    \/ RacePressed
    \/ RacePagePressed
    \/ SpellLevelPressed
    \/ SpellPagePressed
    \/ SpellDetailPressed
    \/ ClassPressed
    \/ ClassPagePressed
    \/ UnhandledPressed

NavSpec == NavInit /\ [][NavNext]_vars

\* ------------------------------------------------------- claim vocabulary

\* A handle_message call is past its session read.
InFlight == task.pc # "idle"

\* generate_response has returned from the retrieval and not yet from the request.
AfterRetrieval == task.pc \in {"post", "await"}

\* The prompt is on its way to the generation endpoint.
PromptSent == task.pc = "await"

\* The documents of the collection the retrieval of domain d resolves to.
ResolvedDocuments(d) == chroma[d].colls[ExistingCollection(chroma, d)]

HasCollection(d) == chroma[d].client /\ ExistingCollection(chroma, d) # ""

\* First position of token tok in text s, 0 when it does not occur.
IndexOf(s, tok) ==
    IF tok \in Range(s) THEN CHOOSE i \in 1..Len(s) : s[i] = tok /\ \A j \in 1..(i - 1) : s[j] # tok
    ELSE 0

\* The lines of a prompt between its instructions header and its question header.
InstructionBlock(prompt) ==
    Slice(prompt, IndexOf(prompt, InstructionsHeader) + 1, IndexOf(prompt, QuestionHeader) - 1)

\* The texts of `parts` occur in `whole` one after the other, from `start` on.
RECURSIVE OccurInOrder(_, _, _)
OccurInOrder(parts, whole, start) ==
    \/ parts = <<>>
    \/ \E i \in start..(Len(whole) + 1) :
         /\ OccursAt(parts[1], whole, i)
         /\ OccurInOrder(Tail(parts), whole, i + Len(parts[1]))

\* t is p without its leading and trailing whitespace.
IsTrimOf(t, p) ==
    /\ t # <<>> => t[1] \notin Whitespace /\ t[Len(t)] \notin Whitespace
    /\ \E i \in 0..(Len(p) - Len(t)) :
         /\ SubSeq(p, i + 1, i + Len(t)) = t
         /\ Range(SubSeq(p, 1, i)) \subseteq Whitespace
         /\ Range(SubSeq(p, i + Len(t) + 1, Len(p))) \subseteq Whitespace

\* The calls whose failure ends a retrieval; a failed count and a failed
\* text query with a working vector query do not.
Unrecovered(env, used) ==
    \/ Failures(env, used) \cap {"embed_ok", "create_ok", "shape"} # {}
    \/ {"texts_ok", "vec_ok"} \subseteq Failures(env, used)

Delivered == {i \in 1..Len(task.sent) : task.sent[i].ok}

\* ------------------------------------------------------------------ claims

\* C1 (as claimed): every free-text message that is no command and that the
\* running Application receives is handled by handle_message.
C1_FreeTextReachesDispatcher ==
    (obs.via = "application" /\ obs.update.kind = "text" /\ obs.update.text \in FreeTexts)
        => obs.handler = "handle_message"

\* C2: a handle_message call whose section is not races, spells or classes
\* (the default section of an unseen user included) never calls the
\* retrieval, at any point of its handling.
C2_NoRetrievalOutsideDomains ==
    (InFlight /\ task.section_name \notin Domains)
        => task.retrieve_calls = 0 /\ ~task.use_rag /\ task.rag_context = <<>>

C2_Witness ==
    /\ task.pc = "done"
    /\ task.section_name = "dice"
    /\ task.generate_calls = 1
    /\ task.retrieve_calls = 0

\* C3: a query in a RAG domain whose client was never initialized, or whose
\* collection holds no document, gets empty grounding, and the prompt that
\* is sent is the non-empty plain template.
C3_EmptyStoreGivesPlainPrompt ==
    (AfterRetrieval /\ task.use_rag
     /\ (~chroma[task.rag_section_type].client
         \/ (HasCollection(task.rag_section_type)
             /\ Len(ResolvedDocuments(task.rag_section_type)) = 0)))
        => /\ task.retrieve_calls = 1
           /\ task.rag_context = <<>>
           /\ PromptSent =>
                /\ task.prompt # <<>>
                /\ task.prompt = PlainPrompt(task.user_message, task.section_name,
                                             task.section_content)
                /\ DatabaseHeader \notin Range(task.prompt)

C3_Witness ==
    /\ PromptSent
    /\ task.use_rag
    /\ HasCollection(task.rag_section_type)
    /\ Len(ResolvedDocuments(task.rag_section_type)) = 0
    /\ task.env = HealthyEnv
    /\ Len(task.prompt) > 0

\* C4 (as claimed): the retrieval never raises, every failure inside it
\* gives empty grounding, and the generation request is still made.
C4_EveryFailureGivesEmpty ==
    /\ ~(task.pc = "raised" /\ task.retrieve_calls = 1 /\ task.generate_calls = 0)
    /\ (AfterRetrieval /\ task.use_rag /\ Failures(task.env, task.used) # {})
          => task.rag_context = <<>>
    /\ (task.retrieve_calls = 1 /\ task.pc \notin {"post", "raised"})
          => task.generate_calls = 1

\* C4 (amended): the retrieval never raises; every failure it does not
\* recover from (embedding request, collection creation, both query forms,
\* malformed result) gives empty grounding; and the generation request is
\* made after every retrieval.
C4_RetrievalNeverRaises ==
    /\ ~(task.pc = "raised" /\ task.retrieve_calls = 1 /\ task.generate_calls = 0)
    /\ (AfterRetrieval /\ task.use_rag /\ Unrecovered(task.env, task.used))
          => task.rag_context = <<>>
    /\ (task.retrieve_calls = 1 /\ task.pc \notin {"post", "raised"})
          => task.generate_calls = 1

C4_Witness ==
    /\ PromptSent
    /\ task.retrieve_calls = 1
    /\ HasCollection(task.rag_section_type)
    /\ Len(ResolvedDocuments(task.rag_section_type)) > 0
    /\ Failures(task.env, task.used) = {"texts_ok", "vec_ok"}
    /\ task.rag_context = <<>>
    /\ task.generate_calls = 1

\* C5 (as claimed): on an available, non-empty collection whose count and
\* result are sound, the retrieval returns the store's documents as soon as
\* the store-internal text query or the explicit embedding with the vector
\* query would succeed.
C5_EitherEmbeddingPathSuffices ==
    (AfterRetrieval /\ task.use_rag
     /\ HasCollection(task.rag_section_type)
     /\ Len(ResolvedDocuments(task.rag_section_type)) > 0
     /\ task.env.count_ok /\ task.env.shape = "ok"
     /\ (task.env.texts_ok \/ (task.env.embed_ok /\ task.env.vec_ok)))
        => /\ task.rag_context # <<>>
           /\ task.rag_context =
                FormatDocuments(QueryDocuments(ResolvedDocuments(task.rag_section_type), TopK))

\* context_parts of the retrieval: the returned documents that have text.
GroundingDocuments == NonBlank(task.documents)

IsGrounded(prompt) == DatabaseHeader \in Range(prompt) /\ PlainHeader \notin Range(prompt)
IsPlain(prompt) == PlainHeader \in Range(prompt) /\ DatabaseHeader \notin Range(prompt)

\* C6: the prompt that is sent is the grounded template exactly when the
\* retrieval gave at least one grounding document, and the plain template
\* otherwise, also when no retrieval was made; in the grounded template the
\* documents come first, then the section content, then the instructions,
\* then the user's question.
C6_GroundedIffDocuments ==
    PromptSent =>
        /\ IsGrounded(task.prompt) <=> GroundingDocuments # <<>>
        /\ IsPlain(task.prompt) <=> GroundingDocuments = <<>>
        /\ task.retrieve_calls = 0 => IsPlain(task.prompt)
        /\ IsGrounded(task.prompt) =>
              LET p == task.prompt
                  iDocs == IndexOf(p, DatabaseHeader)
                  iContent == IndexOf(p, ContentHeader)
                  iInstr == IndexOf(p, InstructionsHeader)
                  iQuestion == IndexOf(p, QuestionHeader)
              IN  /\ 0 < iDocs /\ iDocs < iContent /\ iContent < iInstr /\ iInstr < iQuestion
                  /\ OccursAt(GroundingDocuments[1], p, iDocs + 1)
                  /\ OccursAt(task.section_content, p, iContent + 1)
                  /\ iContent + Len(task.section_content) < iInstr
                  /\ OccursAt(task.user_message, p, iQuestion + 1)

C6_Witness ==
    /\ PromptSent
    /\ IsGrounded(task.prompt)
    /\ Len(GroundingDocuments) >= 2
    /\ Len(task.documents) > Len(GroundingDocuments)

\* C7: when the store returned documents with text, the prompt that is
\* sent contains the full text of every returned document, one after the
\* other in the store's order, inside its database block.
C7_EveryDocumentVerbatim ==
    (PromptSent /\ GroundingDocuments # <<>>) =>
        LET iDocs == IndexOf(task.prompt, DatabaseHeader)
            iContent == IndexOf(task.prompt, ContentHeader)
        IN  /\ iDocs > 0
            /\ OccurInOrder(task.documents, Slice(task.prompt, 1, iContent - 1), iDocs + 1)
            /\ \A i \in 1..Len(task.documents) : Contains(task.prompt, task.documents[i])

C7_Witness ==
    /\ PromptSent
    /\ Len(task.documents) = TopK
    /\ Len(GroundingDocuments) = TopK
    /\ Contains(task.prompt, task.documents[TopK])

\* C8 (as claimed): the instruction block of the prompt that is sent is the
\* one of the plain template whichever template was used, and it lists
\* every section command.
C8_InstructionBlockIdentical ==
    PromptSent =>
        /\ InstructionBlock(task.prompt) =
              InstructionBlock(PlainPrompt(task.user_message, task.section_name,
                                           task.section_content))
        /\ Range(SectionCommandList) \subseteq Range(InstructionBlock(task.prompt))

\* C9 (as claimed): after a connectivity error of the generation request
\* the handler ends with the fixed connection-error text delivered to the
\* user, and nothing else delivered.
C9_ConnectivityErrorDelivered ==
    (task.pc = "done" /\ task.outcome = "connection_error") =>
        /\ task.response = Some(ConnectionErrorText)
        /\ Delivered # {}
        /\ \A i \in Delivered : task.sent[i].text = ConnectionErrorText

\* C9 (amended): after a connectivity error generate_response returns the
\* fixed connection-error text, and the handler sends exactly that text,
\* with HTML formatting first and as plain text when that send fails; the
\* fixed apology is sent only as the third message after both sends failed;
\* no message is empty or the could-not-get-a-response text.
C9_ConnectivityErrorSentOrApology ==
    (task.outcome = "connection_error") =>
        /\ task.response = Some(ConnectionErrorText)
        /\ task.pc \in {"done", "retry", "apology", "raised"} => Len(task.sent) >= 1
        /\ \A i \in 1..Len(task.sent) :
              /\ task.sent[i].text \notin {<<>>, NoResponseText}
              /\ i <= 2 => task.sent[i].text = ConnectionErrorText
              /\ i = 1 => task.sent[i].parse_mode = "HTML"
              /\ i >= 2 => ~task.sent[i - 1].ok
              /\ i = 3 => task.sent[i].text = ApologyText
              /\ i <= 3
        /\ (task.pc = "done" /\ Len(task.sent) <= 2) =>
              Delivered = {Len(task.sent)}

C9_Witness ==
    /\ task.pc = "done"
    /\ task.outcome = "connection_error"
    /\ task.sent = <<Delivery(ConnectionErrorText, "HTML", TRUE)>>

Blank(text) == \A k \in 1..Len(text) : text[k] \in Whitespace

\* C10 (as claimed): after a success status the trimmed payload is
\* delivered, and the could-not-get-a-response text is sent exactly when the
\* status was not a success.
C10_NoResponseOnlyWhenAbsent ==
    /\ (task.pc = "done" /\ task.outcome \in {"ok", "ok_no_field"}) =>
          \E i \in Delivered : IsTrimOf(task.sent[i].text, task.payload)
    /\ Len(task.sent) >= 1 =>
          (task.sent[1].text = NoResponseText <=> task.outcome = "http_error")

\* C10 (amended): after a success status whose payload has text once
\* trimmed, the handler sends the trimmed payload with HTML formatting, on
\* failure its first 4000 characters as plain text, and the fixed apology
\* only after both sends failed; the could-not-get-a-response text is sent
\* exactly when the result is absent (status not a success) or empty (a
\* success whose payload is missing or blank).
C10_TrimmedPayloadOrNoResponse ==
    Len(task.sent) >= 1 =>
        /\ task.sent[1].text = NoResponseText <=>
              \/ task.outcome = "http_error"
              \/ task.outcome \in {"ok", "ok_no_field"} /\ Blank(task.payload)
        /\ (task.outcome = "ok" /\ ~Blank(task.payload)) =>
              /\ IsTrimOf(task.sent[1].text, task.payload)
              /\ task.sent[1].text # <<>>
              /\ task.sent[1].parse_mode = "HTML"
              /\ Len(task.sent) >= 2 =>
                    /\ ~task.sent[1].ok
                    /\ task.sent[2].text = Slice(task.sent[1].text, 1, MaxRetryChars)
              /\ Len(task.sent) >= 3 =>
                    /\ ~task.sent[2].ok
                    /\ task.sent[3].text = ApologyText
              /\ (task.pc = "done" /\ Len(task.sent) <= 2) =>
                    Delivered = {Len(task.sent)}

C10_Witness ==
    /\ task.pc = "done"
    /\ task.outcome = "ok"
    /\ task.payload = <<" ", "a">>
    /\ task.sent = <<Delivery(<<"a">>, "HTML", TRUE)>>

\* t is the text s cut to its first n characters.
IsPrefixUpTo(t, s, n) ==
    /\ Len(t) <= n
    /\ Len(t) <= Len(s)
    /\ Len(t) < Len(s) => Len(t) = n
    /\ t = SubSeq(s, 1, Len(t))

\* C11: with a generation result present, the first delivery attempt is the
\* full text with HTML formatting; a second attempt follows only a failed
\* first one and is the text without formatting, cut to at most 4000
\* characters; a third follows only a failed second one and is the apology;
\* no attempt follows a successful one, and there are never more than three.
C11_DeliveryLadder ==
    /\ Len(task.sent) <= 3
    /\ \A i \in 1..(Len(task.sent) - 1) : ~task.sent[i].ok
    /\ (Truthy(task.response) /\ task.pc \in {"retry", "apology", "done", "raised"}) =>
          /\ Len(task.sent) >= 1
          /\ task.sent[1] = Delivery(task.response.text, "HTML", task.sent[1].ok)
          /\ Len(task.sent) >= 2 =>
                /\ task.sent[2].parse_mode = ""
                /\ Len(task.sent[2].text) <= MaxRetryChars
                /\ IsPrefixUpTo(task.sent[2].text, task.response.text, MaxRetryChars)
          /\ Len(task.sent) >= 3 => task.sent[3].text = ApologyText
          /\ task.pc = "retry" <=> (Len(task.sent) = 1 /\ ~task.sent[1].ok)
          /\ task.pc = "apology" <=> (Len(task.sent) = 2 /\ ~task.sent[2].ok)

C11_Witness ==
    /\ task.pc = "done"
    /\ Len(task.sent) = 2
    /\ Len(task.sent[1].text) > MaxRetryChars
    /\ Len(task.sent[2].text) = MaxRetryChars
    /\ task.sent[2].ok

\* C12: while one message is handled the retrieval and the generation
\* request are each made at most once; once a delivery has been attempted
\* the generation was made exactly once and the retrieval exactly once under
\* use_rag and never otherwise, however many deliveries failed.
C12_ClientsCalledAtMostOnce ==
    /\ task.retrieve_calls <= 1
    /\ task.generate_calls <= 1
    /\ task.retrieve_calls = 1 => task.use_rag
    /\ (task.sent # <<>> \/ task.pc \in {"reply", "retry", "apology", "done"}) =>
          /\ task.generate_calls = 1
          /\ task.retrieve_calls = (IF task.use_rag THEN 1 ELSE 0)

C12_Witness ==
    /\ task.pc = "done"
    /\ Len(task.sent) = 3
    /\ task.outcome = "timeout"
    /\ task.retrieve_calls = 1
    /\ task.generate_calls = 1

\* The steps of one handle_message call after its first.
HandlerStep ==
    \/ GenerateRetrieve
    \/ GenerateSend
    \/ GenerateReceive
    \/ HandleMessageReply
    \/ HandleMessageRetry
    \/ HandleMessageApology

\* The number of steps a handle_message call can still take, at most.
Rank(pc) ==
    CASE pc = "retrieve" -> 6
      [] pc = "post" -> 5
      [] pc = "await" -> 4
      [] pc = "reply" -> 3
      [] pc = "retry" -> 2
      [] pc = "apology" -> 1
      [] OTHER -> 0

\* C13 (as claimed): handle_message never ends with an exception, and when
\* it has ended a non-empty reply has been delivered to the user.
C13_AlwaysRepliesNoException ==
    /\ task.pc # "raised"
    /\ task.pc = "done" =>
          \E i \in Delivered : task.sent[i].text # <<>>

\* C13 (amended): every step of a handle_message call is followed by an
\* enabled next step until the call has ended, and each step brings the end
\* nearer (nothing is left pending); no message sent is empty; the call
\* ends normally exactly with its last message delivered; it ends with an
\* exception only when the delivery layer failed: on the typing action, on
\* the could-not-get-a-response message, or on the apology.
C13_TerminatesReplyOrDeliveryError ==
    [][/\ task.pc \notin {"idle", "done", "raised"} => ENABLED HandlerStep
       /\ (task.pc # "idle" /\ task'.pc # "idle") => Rank(task'.pc) < Rank(task.pc)
       /\ \A i \in 1..Len(task'.sent) : task'.sent[i].text # <<>>
       /\ task'.pc = "done" =>
             /\ Len(task'.sent) >= 1
             /\ task'.sent[Len(task'.sent)].ok
       /\ task'.pc = "raised" =>
             \/ task.pc = "idle" /\ task'.sent = <<>> /\ task'.generate_calls = 0
                  /\ task'.retrieve_calls = 0
             \/ /\ task.pc \in {"reply", "apology"}
                /\ Len(task'.sent) >= 1
                /\ ~task'.sent[Len(task'.sent)].ok
                /\ task'.sent[Len(task'.sent)].text \in {NoResponseText, ApologyText}
      ]_vars

C13_Witness ==
    /\ task.pc = "done"
    /\ task.outcome = "timeout"
    /\ task.retrieve_calls = 1
    /\ task.sent = <<Delivery(ErrorText("ReadTimeout"), "HTML", FALSE),
                     Delivery(ErrorText("ReadTimeout"), "", TRUE)>>

\* The number of documents joined in a retrieval result.
DocumentCount(ctx) ==
    IF ctx = <<>> THEN 0
    ELSE 1 + Cardinality({i \in 1..Len(ctx) : ctx[i] = RagSeparator[1]})

\* C14: a retrieval returns at most 5 documents; when nothing in it failed
\* beyond recovery it returns the first 5 documents of the collection, and
\* every document of a collection that holds fewer than 5 (those without
\* text left out of the joined result).
C14_AtMostFiveAllWhenFewer ==
    (AfterRetrieval /\ task.use_rag) =>
        /\ Len(task.documents) <= TopK
        /\ DocumentCount(task.rag_context) <= TopK
        /\ DocumentCount(task.rag_context) = Len(GroundingDocuments)
        /\ (HasCollection(task.rag_section_type) /\ ~Unrecovered(task.env, task.used)) =>
              LET coll == ResolvedDocuments(task.rag_section_type)
              IN  /\ Len(coll) < TopK =>
                        /\ task.documents = coll
                        /\ \A i \in 1..Len(coll) : Contains(task.rag_context, coll[i])
                  /\ Len(coll) >= TopK =>
                        /\ Len(task.documents) = TopK
                        /\ \A i \in 1..TopK : task.documents[i] = coll[i]

C14_Witness ==
    /\ AfterRetrieval
    /\ task.use_rag
    /\ Len(ResolvedDocuments(task.rag_section_type)) = SmallCorpusSize
    /\ task.documents = ResolvedDocuments(task.rag_section_type)
    /\ DocumentCount(task.rag_context) = SmallCorpusSize

\* The pair a handle_message call read from the session store.
PairRead == [section |-> task.section_name, content |-> task.section_content]

\* C15: a handle_message call for a user without an entry in the session
\* store (no set_section has occurred for that user) reads the section
\* rules with the three parts of the static rules text, and so does a read
\* for every such user in every reachable state.
C15_UnseenUserReadsRules ==
    /\ \A u \in Users \ DOMAIN user_sessions :
          get_current_section(user_sessions, u) =
              [section |-> "rules",
               content |-> <<"RULES_TEXT_PART1", "RULES_TEXT_PART2", "RULES_TEXT_PART3">>]
    /\ (InFlight /\ task.user_id \notin DOMAIN user_sessions) =>
          /\ task.section_name = "rules"
          /\ task.section_content =
                <<"RULES_TEXT_PART1", "RULES_TEXT_PART2", "RULES_TEXT_PART3">>
          /\ ~task.use_rag

C15_Witness ==
    /\ task.pc = "await"
    /\ task.user_id = 2
    /\ DOMAIN user_sessions = {1}
    /\ user_sessions[1].section = "races"
    /\ task.section_name = "rules"

\* The static content each section is selected with (app.py lines 1000-1046
\* and 1258-1369).
ContentOf(section) ==
    CASE section = "rules" -> RULES_TEXT
      [] section = "dice" -> DICE_TEXT
      [] section = "combat" -> COMBAT_TEXT
      [] section = "stats" -> STATS_TEXT
      [] section = "glossary" -> GLOSSARY_TEXT
      [] OTHER -> <<>>

\* The section an update selects, "" when it selects none.
SectionSelected(upd) ==
    CASE upd.kind = "command" /\ upd.name \in Sections -> upd.name
      [] upd.kind = "text" /\ upd.text = BtnDice -> "dice"
      [] upd.kind = "text" /\ upd.text = BtnCombat -> "combat"
      [] upd.kind = "text" /\ upd.text = BtnStats -> "stats"
      [] upd.kind = "text" /\ upd.text = BtnGlossary -> "glossary"
      [] upd.kind = "text" /\ upd.text = BtnClasses -> "classes"
      [] upd.kind = "text" /\ upd.text = BtnRaces -> "races"
      [] upd.kind = "text" /\ upd.text = BtnSpells -> "spells"
      [] OTHER -> ""

\* C16: whatever the user's entry was before, after a handler has called
\* set_section a get_current_section for that user returns exactly the
\* section and the content of that call, with nothing of the earlier entry.
C16_LastWriteWins ==
    [][(obs'.via = "application" /\ SectionSelected(obs'.update) # "") =>
          /\ obs'.user_id \in DOMAIN user_sessions'
          /\ get_current_section(user_sessions', obs'.user_id) =
                [section |-> SectionSelected(obs'.update),
                 content |-> ContentOf(SectionSelected(obs'.update))]
      ]_vars

C16_Witness ==
    /\ obs.handler = "cmd_combat"
    /\ obs.user_id = 1
    /\ get_current_section(user_sessions, 1) = [section |-> "combat", content |-> COMBAT_TEXT]
    /\ 2 \in DOMAIN user_sessions

\* The pairs a single set_section call writes.
WrittenPairs == {[section |-> s, content |-> ContentOf(s)] : s \in Sections}

\* C17: in every reachable state the store holds for each user one entry
\* at most, and it is a pair one set_section call wrote; the pair a
\* handle_message call read is such a pair or the default pair, never the
\* section of one call with the content of another.
C17_NoTornSession ==
    /\ DOMAIN user_sessions \subseteq Users
    /\ \A u \in DOMAIN user_sessions :
          /\ DOMAIN user_sessions[u] = {"section", "content"}
          /\ user_sessions[u] \in WrittenPairs
          /\ get_current_section(user_sessions, u) \in WrittenPairs
    /\ InFlight => PairRead \in WrittenPairs \cup {DefaultSession}

C17_Witness ==
    /\ task.pc = "reply"
    /\ task.user_id = 1
    /\ PairRead = [section |-> "stats", content |-> STATS_TEXT]
    /\ 2 \in DOMAIN user_sessions
    /\ user_sessions[2].section = "glossary"

\* C18: a step that sets the section of one user leaves the entry of every
\* other user as it was, present or absent.
C18_SetLeavesOthersUnchanged ==
    [][\A b \in Users :
          b # obs'.user_id =>
              /\ b \in DOMAIN user_sessions' <=> b \in DOMAIN user_sessions
              /\ b \in DOMAIN user_sessions => user_sessions'[b] = user_sessions[b]
      ]_vars

C18_Witness ==
    /\ obs.handler = "cmd_spells"
    /\ obs.user_id = 2
    /\ DOMAIN user_sessions = {1, 2}
    /\ user_sessions[2].section = "spells"
    /\ user_sessions[1] = [section |-> "dice", content |-> DICE_TEXT]

\* C19: whatever sections the users have chosen, a handle_message call
\* works with the section and content of the sender's own entry: use_rag
\* and the retrieval domain follow it, and the prompt that is sent names it.
C19_QueryFollowsOwnSession ==
    InFlight =>
        /\ PairRead = get_current_section(user_sessions, task.user_id)
        /\ task.use_rag <=> get_current_section(user_sessions, task.user_id).section \in Domains
        /\ task.use_rag =>
              task.rag_section_type = get_current_section(user_sessions, task.user_id).section
        /\ PromptSent =>
              /\ task.prompt[3] = get_current_section(user_sessions, task.user_id).section
              /\ IsGrounded(task.prompt) => task.use_rag

C19_Witness ==
    /\ PromptSent
    /\ task.user_id = 2
    /\ DOMAIN user_sessions = {1, 2}
    /\ user_sessions[1].section = "races"
    /\ user_sessions[2].section = "dice"
    /\ ~task.use_rag
    /\ IsPlain(task.prompt)

\* C20 (as claimed): once a handle_message call has read the session of a
\* user, the session store has an entry for that user, the default one if
\* the user had none.
C20_SessionCreatedOnFirstRead ==
    InFlight =>
        /\ task.user_id \in DOMAIN user_sessions
        /\ user_sessions[task.user_id] = PairRead

\* The texts the user received, one after the other.
DeliveredText == Join([i \in 1..Len(task.sent) |-> IF task.sent[i].ok THEN task.sent[i].text ELSE <<>>], <<>>)

\* C21 (as claimed): when handle_message has ended normally for a
\* generation result longer than the transport limit, the user has received
\* the whole result, in messages of at most 4096 characters each.
C21_LongReplySplitAndDelivered ==
    (task.pc = "done" /\ Truthy(task.response)
     /\ Len(task.response.text) > TransportLimit) =>
        /\ \A i \in 1..Len(task.sent) : Len(task.sent[i].text) <= TransportLimit
        /\ DeliveredText = task.response.text

\* C22: in every reachable state the section tag of every stored session
\* is one of rules, dice, combat, stats, glossary, races, spells, classes.
C22_StoredTagIsOneOfEight ==
    \A u \in DOMAIN user_sessions :
        user_sessions[u].section \in
            {"rules", "dice", "combat", "stats", "glossary", "races", "spells", "classes"}

C22_Witness ==
    /\ DOMAIN user_sessions = Users
    /\ user_sessions[1].section = "races"
    /\ user_sessions[2].section = "glossary"
    /\ obs.handler = "cmd_races"

\* The session the section handlers are to leave: the empty content for the
\* three domains, all the parts of the static text for the other sections.
SessionFor(section) ==
    [section |-> section,
     content |-> CASE section \in {"races", "spells", "classes"} -> <<>>
                   [] section = "rules" -> RULES_TEXT
                   [] section = "dice" -> DICE_TEXT
                   [] section = "combat" -> COMBAT_TEXT
                   [] section = "stats" -> STATS_TEXT
                   [] section = "glossary" -> GLOSSARY_TEXT]

\* The section a reply-keyboard label stands for, "" for the other labels.
SectionOfButton(text) ==
    CASE text = BtnDice -> "dice"
      [] text = BtnCombat -> "combat"
      [] text = BtnStats -> "stats"
      [] text = BtnGlossary -> "glossary"
      [] text = BtnClasses -> "classes"
      [] text = BtnRaces -> "races"
      [] text = BtnSpells -> "spells"
      [] OTHER -> ""

\* C23: once a section command or a section button of the reply keyboard
\* has been handled, the user's session holds the tag of that section with
\* the empty content for races, spells and classes and with the full static
\* text for the other sections; the command and the button of one section
\* leave the same session.
C23_CommandAndButtonSelectSameSession ==
    /\ (obs.via = "application" /\ obs.update.kind = "command"
         /\ obs.update.name \in Sections) =>
            /\ obs.user_id \in DOMAIN user_sessions
            /\ user_sessions[obs.user_id] = SessionFor(obs.update.name)
    /\ (obs.via = "application" /\ obs.update.kind = "text"
         /\ SectionOfButton(obs.update.text) # "") =>
            /\ obs.user_id \in DOMAIN user_sessions
            /\ user_sessions[obs.user_id] = SessionFor(SectionOfButton(obs.update.text))

C23_Witness ==
    /\ obs.handler = "handle_reply_keyboard"
    /\ obs.update.text = BtnDice
    /\ user_sessions[obs.user_id] = [section |-> "dice", content |-> DICE_TEXT]
    /\ Len(user_sessions[obs.user_id].content) = 5

\* split_message has returned for a text longer than the limit.
SplitReturnedLong ==
    /\ call.fn = "split_message"
    /\ call.pc = "return"
    /\ Len(call.text) > call.limit

\* C24 (as claimed): no part split_message returns is longer than the
\* limit, also when a single line of the text is longer than the limit.
C24_EveryPartWithinLimit ==
    (call.fn = "split_message" /\ call.pc = "return") =>
        \A i \in 1..Len(call.parts) : Len(call.parts[i]) <= call.limit

\* The lines of the input, each without its trailing whitespace.
InputLines ==
    LET lines == SplitLines(call.text)
    IN  [i \in 1..Len(lines) |-> RStrip(lines[i])]

\* The lines of each returned part.
LinesOfParts == [j \in 1..Len(call.parts) |-> SplitLines(call.parts[j])]

RECURSIVE Flatten(_)
Flatten(seqs) == IF seqs = <<>> THEN <<>> ELSE Head(seqs) \o Flatten(Tail(seqs))

\* Are the lines of `parts`, in order, the lines `lines` without the blank
\* lines that stand at the start of the text or directly behind the end of
\* a part?  `boundary` tells that no line of the first part has been met yet.
RECURSIVE KeptButBoundaryBlanks(_, _, _)
KeptButBoundaryBlanks(lines, parts, boundary) ==
    IF lines = <<>> THEN parts = <<>> \/ (~boundary /\ parts = << <<>> >>)
    ELSE IF boundary
    THEN IF Head(lines) = <<>>
         THEN KeptButBoundaryBlanks(Tail(lines), parts, TRUE)
         ELSE /\ parts # <<>>
              /\ Head(parts) # <<>>
              /\ Head(Head(parts)) = Head(lines)
              /\ KeptButBoundaryBlanks(Tail(lines),
                                       <<Tail(Head(parts))>> \o Tail(parts), FALSE)
    ELSE IF Head(parts) = <<>>
         THEN KeptButBoundaryBlanks(lines, Tail(parts), TRUE)
         ELSE /\ Head(Head(parts)) = Head(lines)
              /\ KeptButBoundaryBlanks(Tail(lines),
                                       <<Tail(Head(parts))>> \o Tail(parts), FALSE)

\* C25 (as claimed): for a text longer than the limit the lines of the
\* returned parts, in order, are exactly the lines of the input with their
\* trailing whitespace stripped; no line is dropped, duplicated or reordered.
C25_LinesExactlyPreserved ==
    SplitReturnedLong => Flatten(LinesOfParts) = InputLines

\* C25 (amended): for a text longer than the limit the lines of the
\* returned parts, in order, are the lines of the input with their trailing
\* whitespace stripped, except that the blank lines at the start of the text
\* and directly behind a part boundary are dropped; no other line is
\* dropped and none is duplicated, reordered or added.
C25_LinesPreservedButBoundaryBlanks ==
    SplitReturnedLong => KeptButBoundaryBlanks(InputLines, LinesOfParts, TRUE)

C25_Witness ==
    /\ SplitReturnedLong
    /\ Len(call.parts) = 2
    /\ Len(SplitLines(call.parts[1])) = 2
    /\ SplitLines(call.parts[1])[2] = <<>>
    /\ Len(Flatten(LinesOfParts)) < Len(InputLines)

\* The handlers that are to leave the session store alone.
SessionReaders ==
    {"handle_message", "cmd_start", "cmd_help", "handle_inline_button", "race_callback",
     "race_page_callback", "spell_level_callback", "spell_page_callback",
     "spell_detail_callback", "class_callback", "class_page_callback"}

\* C26: the session store changes only in a step in which a section command
\* or a section button of the reply keyboard is handled; no step of
\* handle_message, of an inline pagination or detail callback handler, of
\* /start, of /help or of another reply-keyboard text changes it.
C26_OnlySectionSelectionWrites ==
    [][
        /\ (user_sessions' # user_sessions) =>
              (/\ obs' # obs
               /\ obs'.via = "application"
               /\ obs'.handler \notin SessionReaders
               /\ \/ obs'.update.kind = "command" /\ obs'.update.name \in Sections
                  \/ obs'.update.kind = "text" /\ SectionOfButton(obs'.update.text) # "")
        /\ (obs'.handler \in SessionReaders \/ task'.pc # task.pc) =>
              (user_sessions' = user_sessions)
        /\ (obs' # obs /\ obs'.update.kind = "text"
               /\ SectionOfButton(obs'.update.text) = "") =>
              (user_sessions' = user_sessions)
      ]_vars

C26_Witness ==
    /\ obs.handler = "race_callback"
    /\ obs.update.kind = "callback"
    /\ obs.user_id = 1
    /\ DOMAIN user_sessions = {1}
    /\ user_sessions[1] = [section |-> "dice", content |-> DICE_TEXT]

\* The step is the retrieval of a handle_message call under RAG.
RetrievalStep == task.pc = "retrieve" /\ task.use_rag /\ task'.pc # task.pc

\* The domain's client is initialised and the store has neither the
\* collection dnd_<domain> nor the collection <domain>.
NeitherCollectionExists(d) ==
    /\ chroma[d].client
    /\ PrimaryName(d) \notin DOMAIN chroma[d].colls
    /\ d \notin DOMAIN chroma[d].colls

\* The store after an empty collection named d has been added.
WithEmptyCollection(d) == [chroma EXCEPT ![d].colls = [n \in {d} |-> <<>>]]

\* A retrieval finds the empty collection <domain> and returns no grounding.
LaterQueryFindsEmpty ==
    (/\ RetrievalStep
     /\ chroma[task.rag_section_type].client
     /\ DOMAIN chroma[task.rag_section_type].colls = {task.rag_section_type}
     /\ chroma[task.rag_section_type].colls[task.rag_section_type] = <<>>) =>
        /\ chroma' = chroma
        /\ "create_ok" \notin task'.used
        /\ task'.rag_context = <<>>

PagesFor(n, size) == IF n = 0 THEN 1 ELSE ((n - 1) \div size) + 1

\* The page arguments the pagers are tried with.
PageArguments == (0 - 2)..(PagesFor(MaxRaces, 10) + 3)

\* Does a navigation button of a pager lead to a page that exists?
TargetsValidPage(world, data) ==
    /\ StartsWith(data, <<"race_page_">>) =>
          /\ IsInt(Tail(data))
          /\ ToInt(Tail(data)) \in 1..PagesFor(Len(world.races.names), 10)
    /\ StartsWith(data, <<"spell_page_">>) =>
          LET fields == SplitAt(Tail(data), "_")
          IN  /\ Len(fields) = 2
              /\ IsInt(fields[2])
              /\ ToInt(fields[2]) \in 1..PagesFor(SpellCount(world.spells, fields[1]), 8)
    /\ \A section \in PagedSections :
          data[1] = SectionPrefix(section) =>
              /\ IsInt(Tail(data))
              /\ ToInt(Tail(data)) \in 0..(Len(SectionParts(section)) - 1)

\* C28: the race list and the spell list show a page between 1 and the
\* number of pages whatever page is asked for, and the navigation buttons
\* of these pagers and of the section pager (create_nav_buttons) lead only
\* to pages that exist.
C28_PagersStayInRange ==
    call.fn = "keyboard" =>
        /\ call.screen.kind \in {"races", "spells"} =>
              /\ 1 <= call.screen.current_page
              /\ call.screen.current_page <= call.screen.total_pages
        /\ \A page \in PageArguments :
              LET r == build_races_page(call.world.races, page)
              IN  /\ r.screen.current_page \in 1..PagesFor(Len(call.world.races.names), 10)
                  /\ \A i \in 1..Len(r.keyboard) :
                        TargetsValidPage(call.world, r.keyboard[i].callback_data)
        /\ \A page \in PageArguments, level \in {<<"cantrips">>, <<"1">>} :
              LET r == build_spells_page(call.world.spells, level, page)
              IN  r.screen.kind = "spells" =>
                    /\ r.screen.current_page
                          \in 1..PagesFor(SpellCount(call.world.spells, level), 8)
                    /\ \A i \in 1..Len(r.keyboard) :
                          TargetsValidPage(call.world, r.keyboard[i].callback_data)
        /\ \A i \in 1..Len(call.keyboard) :
              TargetsValidPage(call.world, call.keyboard[i].callback_data)

C28_Witness ==
    /\ call.fn = "keyboard"
    /\ call.handler = "race_page_callback"
    /\ call.screen.kind = "races"
    /\ call.screen.current_page = 3
    /\ call.screen.total_pages = 3
    /\ Len(call.world.races.names) = MaxRaces

\* C29 (as claimed): the press of the button of a race opens the detail
\* page of the race the button was built for, also for a key that shares
\* its first 20 characters with another key or whose shortened form occurs
\* inside another key.
C29_RaceButtonOpensItsRace ==
    (/\ call.fn = "keyboard"
     /\ call.handler = "race_callback"
     /\ resolve_race_key(call.world.races, call.pressed.text) # NoKey) =>
        /\ call.outcome = "shown"
        /\ call.screen.kind = "race_detail"
        /\ call.screen.subject = resolve_race_key(call.world.races, call.pressed.text)

\* What the handler the Application picked makes of the data.
HandlerResult(world, handler, data) ==
    CASE handler = "handle_inline_button" -> InlineButtonResult(data)
      [] handler = "race_callback" -> RaceResult(world.races, data)
      [] handler = "race_page_callback" -> RacePageResult(world.races, data)
      [] handler = "spell_level_callback" -> SpellLevelResult(world.spells, data)
      [] handler = "spell_page_callback" -> SpellPageResult(world.spells, data)
      [] handler = "spell_detail_callback" -> SpellDetailResult(world.spells, data)
      [] handler = "spell_level_select_callback" -> build_spells_level_selection
      [] handler = "class_callback" -> ClassResult(world.classes, data)
      [] handler = "class_page_callback" -> ClassPageResult(world.classes, data)
      [] OTHER -> Ignored("unhandled")

\* C30 (as claimed): the callback data of every button of every keyboard
\* the builders emit match the pattern of a registered handler, and the
\* first handler that matches takes the data as the format they were
\* written in and shows the page asked for.
C30_EveryButtonHandled ==
    call.fn = "keyboard" =>
        \A i \in 1..Len(call.keyboard) :
            /\ Route(CallbackQuery(call.keyboard[i].callback_data)) # ""
            /\ HandlerResult(call.world,
                             Route(CallbackQuery(call.keyboard[i].callback_data)),
                             call.keyboard[i].callback_data).outcome = "shown"

==========================================================================
